---- MODULE Spec2Model ----
(***************************************************************************)
(* Arcade games (Snake, Breakout, Flappy) and their variation generator.   *)
(*                                                                         *)
(* The module holds several specifications over one set of variables:      *)
(*   SpecVariation  the backend's generateVariation (variation.ts)         *)
(*   SpecFlappy     the life cycle of FlappyGame (games/flappy/index.ts)   *)
(*   SpecSnake      the life cycle of SnakeGame  (games/snake/index.ts)    *)
(*   SpecBreakout   the life cycle of BreakoutGame (src/games/flappy.ts)   *)
(*   SpecLauncher   the game launcher (src/main.ts)                        *)
(* Each specification moves its own variables and leaves the others at     *)
(* their idle value.                                                       *)
(***************************************************************************)
EXTENDS Integers, Sequences, FiniteSets, TLC

VARIABLES
    \* ---- variation generator (backend) ----
    salt,        \* the PRNG's unknown mixing, fixed for a run (seedrandom is deterministic)
    first,       \* gameId -> the first result generateVariation returned for it, or NoResult
    last,        \* the last call: [id, result, again], or NoCall
    \* ---- shared by the game life cycles ----
    fetches,     \* variation fetches in flight: a sequence, oldest first
    scheduler,   \* pending callbacks: animation frames and interval timers
    halted,      \* history: stop()/destroy() returned and no start/restart was invoked since
    lastOp,      \* history: the last operation that ran
    \* ---- FlappyGame ----
    flappy,
    \* ---- SnakeGame, with its module-level colours ----
    snake, SNAKE_COLOR, FOOD_COLOR,
    \* ---- BreakoutGame, with its module-level variation values ----
    breakout, PADDLE_WIDTH, BALL_SPEED_MULTIPLIER,
    \* ---- launcher ----
    currentGame, instances, launches, screenShown

variationVars == <<salt, first, last>>
sharedVars    == <<fetches, scheduler, halted, lastOp>>
snakeVars     == <<snake, SNAKE_COLOR, FOOD_COLOR>>
breakoutVars  == <<breakout, PADDLE_WIDTH, BALL_SPEED_MULTIPLIER>>
launcherVars  == <<currentGame, instances, launches, screenShown>>
vars == <<variationVars, sharedVars, flappy, snakeVars, breakoutVars, launcherVars>>

NULL == "null"
Undefined == "undefined"

(***************************************************************************)
(* Strings are sequences of one-character strings, so that toLowerCase,    *)
(* toString and concatenation are computed and not assumed.                *)
(***************************************************************************)
Chars ==
    <<"0","1","2","3","4","5","6","7","8","9",
      "a","b","c","d","e","f","g","h","i","j","k","l","m",
      "n","o","p","q","r","s","t","u","v","w","x","y","z",
      "A","B","C","D","E","F","G","H","I","J","K","L","M",
      "N","O","P","Q","R","S","T","U","V","W","X","Y","Z",
      ".","-","_"," ",":">>

CharCodes == [c \in {Chars[i] : i \in DOMAIN Chars} |-> CHOOSE i \in DOMAIN Chars : Chars[i] = c]
CharCode(c) == CharCodes[c]

\* String.prototype.toLowerCase on one character: "A".."Z" sit 26 places after "a".."z".
LowerChar(c) ==
    LET i == CharCode(c) IN IF i \in 37..62 THEN Chars[i - 26] ELSE c

ToLowerCase(s) == [i \in DOMAIN s |-> LowerChar(s[i])]

\* Number.prototype.toString(36) of a non-negative integer.
RECURSIVE ToString36(_)
ToString36(n) ==
    IF n < 36 THEN <<Chars[n + 1]>>
    ELSE ToString36(n \div 36) \o <<Chars[(n % 36) + 1]>>

RECURSIVE ToString10(_)
ToString10(n) ==
    IF n < 10 THEN <<Chars[n + 1]>>
    ELSE ToString10(n \div 10) \o <<Chars[(n % 10) + 1]>>

(***************************************************************************)
(* Random numbers.  An outcome of rng() or Math.random() in [0, 1) is a    *)
(* numerator over RngDen; the outcomes tried are RngSteps + 1 points from  *)
(* 0 to (RngDen - 1) / RngDen.                                             *)
(***************************************************************************)
RngDen == 1000
RngSteps == 3
MaxClock == 1

RngPoint(k) == (k * (RngDen - 1)) \div RngSteps
RngOutcomes == {RngPoint(k) : k \in 0..RngSteps}
Clock == 0..MaxClock
\* Math.random() as drawn by the generator: its two extremes.
Entropy == {RngPoint(0), RngPoint(RngSteps)}

\* The fraction digits of r.toString(36), cut after two digits ("" for r = 0).
Frac36(r) ==
    IF r = 0 THEN <<>>
    ELSE LET d1 == (r * 36) \div RngDen
             r1 == (r * 36) % RngDen
             d2 == (r1 * 36) \div RngDen
         IN  <<Chars[d1 + 1], Chars[d2 + 1]>>

\* r.toString() of an outcome r in [0, 1): "0" or "0.ddd".
RngToString(r) ==
    IF r = 0 THEN <<"0">> ELSE <<"0", ".">> \o ToString10(r)

\* Math.random().toString(36).substring(2): the text after "0.".
RandomSuffix36(r) == Frac36(r)

RECURSIVE SumCodes(_)
SumCodes(s) == IF s = <<>> THEN 0 ELSE CharCode(Head(s)) + SumCodes(Tail(s))

\* seedrandom(seed): a deterministic stream; its i-th draw depends on the seed
\* and on the run's mixing sl alone.
SeedRandom(seed, i, sl) == RngPoint((SumCodes(seed) + sl + i) % (RngSteps + 1))

\* JavaScript array[index]; outside the array the result is undefined, written
\* undef (a value of the array's element type that no element equals).
At(arr, idx, undef) == IF idx \in 0..(Len(arr) - 1) THEN arr[idx + 1] ELSE undef
UndefinedNumber == -1

\* Math.floor(r * n) for an outcome r.
FloorMul(r, n) == (r * n) \div RngDen

(***************************************************************************)
(* variation.ts: schemas                                                   *)
(***************************************************************************)
SnakeSpeedMin == 50
SnakeSpeedMax == 300
SnakeColors == <<"green", "blue", "yellow", "purple", "orange">>
SnakeFoodColors == <<"red", "pink", "cyan", "magenta">>
FlappyGapMin == 100
FlappyGapMax == 200
\* gravity in hundredths
FlappyGravityMin == 10
FlappyGravityMax == 50
PaddleSizes == <<"small", "medium", "large">>
BallSpeeds == <<"slow", "normal", "fast">>

Range(s) == {s[i] : i \in DOMAIN s}

SnakeVariationSchema(v) ==
    /\ v.speed # UndefinedNumber
    /\ v.speed >= SnakeSpeedMin /\ v.speed <= SnakeSpeedMax
    /\ v.color \in Range(SnakeColors)
    /\ v.foodColor \in Range(SnakeFoodColors)

FlappyVariationSchema(v) ==
    /\ Len(v.seed) >= 1
    /\ v.gap >= FlappyGapMin /\ v.gap <= FlappyGapMax
    /\ v.gravity >= FlappyGravityMin /\ v.gravity <= FlappyGravityMax

SpeedValues == <<50, 75, 100, 125, 150, 175, 200, 250, 300>>

Str_flappy == <<"f","l","a","p","p","y">>
Str_snake == <<"s","n","a","k","e">>
Str_breakout == <<"b","r","e","a","k","o","u","t">>

\* A faulty variant: every id gets a time-based seed (the policy of dist/variation.js).
IsFreshSeedId_Always(gameId) == TRUE

\* variation.ts line 107: which ids get a fresh seed on every request.
IsFreshSeedId(gameId) == ToLowerCase(gameId) = Str_flappy

\* variation.ts lines 107-116: the seed string.
SeedString(gameId, now, random, sl) ==
    IF IsFreshSeedId(gameId)
    THEN ToString36(now) \o RandomSuffix36(random)
    ELSE RngToString(SeedRandom(gameId, 1, sl))

\* A faulty variant: the gap is drawn one pixel too high.
FlappyGap_OffByOne(r) == FloorMul(r, FlappyGapMax - FlappyGapMin + 1) + FlappyGapMin + 1

\* variation.ts line 147: Math.floor(rng() * (maxGap - minGap + 1)) + minGap
FlappyGap(r) == FloorMul(r, FlappyGapMax - FlappyGapMin + 1) + FlappyGapMin

\* variation.ts line 148: parseFloat((rng() * (max - min) + min).toFixed(2)), in hundredths
FlappyGravity(r) ==
    ((r * (FlappyGravityMax - FlappyGravityMin) * 2 + RngDen) \div (2 * RngDen)) + FlappyGravityMin

ErrorResult(msg) == [kind |-> "error", error |-> msg]

\* variation.ts lines 101-186.  The branch for unknown ids (lines 158-167) comes
\* before the Breakout branch (lines 169-185), which no id reaches.
generateVariation(gameId, now, random, sl) ==
    LET seedString == SeedString(gameId, now, random, sl)
        rng(i) == SeedRandom(seedString, i, sl)
    IN  IF ToLowerCase(gameId) = Str_snake
        THEN LET variation ==
                    [kind |-> "snake", seed |-> seedString,
                     speed |-> At(SpeedValues, FloorMul(rng(1), Len(SpeedValues)), UndefinedNumber),
                     color |-> At(SnakeColors, FloorMul(rng(2), Len(SnakeColors)), Undefined),
                     foodColor |-> At(SnakeFoodColors, FloorMul(rng(3), Len(SnakeFoodColors)), Undefined)]
             IN  IF SnakeVariationSchema(variation) THEN variation
                 ELSE ErrorResult(<<"Failed to generate valid Snake variation.">>)
        ELSE IF ToLowerCase(gameId) = Str_flappy
        THEN LET variation ==
                    [kind |-> "flappy", seed |-> seedString,
                     gap |-> FlappyGap(rng(1)),
                     gravity |-> FlappyGravity(rng(2))]
             IN  IF FlappyVariationSchema(variation) THEN variation
                 ELSE ErrorResult(<<"Failed to generate valid Flappy Bird variation.">>)
        ELSE ErrorResult(<<"Unknown gameId: ">> \o gameId)

GameIds ==
    { Str_snake, Str_flappy, <<"F","L","A","P","P","Y">>, Str_breakout, <<"p","o","n","g">> }

Salts == 0..RngSteps

NoResult == [kind |-> "none"]
NoCall == [id |-> <<>>, result |-> NoResult, again |-> FALSE]

InitVariation ==
    /\ salt \in Salts
    /\ first = [id \in GameIds |-> NoResult]
    /\ last = NoCall

IdleVariation ==
    /\ salt = 0
    /\ first = [id \in GameIds |-> NoResult]
    /\ last = NoCall

\* One request: generateVariation(gameId) at wall-clock time now, with Math.random() = random.
GenerateVariation ==
    \E gameId \in GameIds, now \in Clock, random \in Entropy :
        LET result == generateVariation(gameId, now, random, salt)
        IN  /\ last' = [id |-> gameId, result |-> result, again |-> first[gameId] # NoResult]
            /\ first' = IF first[gameId] = NoResult
                        THEN [first EXCEPT ![gameId] = result]
                        ELSE first
            /\ lastOp' = [op |-> "other"]
            /\ UNCHANGED <<salt, fetches, scheduler, halted, flappy, snakeVars, breakoutVars, launcherVars>>

\* index.ts lines 25-38: the handler of GET /api/variation/:id.  Whatever
\* generateVariation returns, an error object included, is returned as the body
\* of a 200 response; generateVariation never throws, so the 500 of the catch
\* is not produced.
VariationRoute(id, now, random, sl) ==
    IF id = <<>>
    THEN [status |-> 400, body |-> ErrorResult(<<"Game ID is required">>)]
    ELSE [status |-> 200, body |-> generateVariation(id, now, random, sl)]

\* The ids a request may carry: a known one, an unknown one and the empty one.
RouteIds == {Str_snake, <<"p","o","n","g">>, <<>>}

\* One request GET /api/variation/<id>; lastOp keeps the response.
GetVariation ==
    \E id \in RouteIds, now \in Clock, random \in Entropy :
        LET reply == VariationRoute(id, now, random, salt)
        IN  /\ lastOp' = [op |-> "GET", id |-> id, status |-> reply.status, body |-> reply.body]
            /\ IF id = <<>>
               THEN UNCHANGED <<first, last>>
               ELSE /\ last' = [id |-> id, result |-> reply.body, again |-> first[id] # NoResult]
                    /\ first' = IF first[id] = NoResult
                                THEN [first EXCEPT ![id] = reply.body]
                                ELSE first
            /\ UNCHANGED <<salt, fetches, scheduler, halted, flappy, snakeVars, breakoutVars, launcherVars>>


(***************************************************************************)
(* dist/variation.js: the session-random generator and its modifiers.      *)
(***************************************************************************)
AllModifiers ==
    <<"fastStart", "slowMotion", "doubleScore", "shrinkingTime",
      "ghostMode", "magneticEffect", "turbulence", "rapidFire",
      "biggerTargets", "smallerTargets", "invertedControls", "bouncyWalls",
      "timeWarp", "gravityShift", "mirrorMode", "fadeTrail",
      "explosiveMode", "multiplierMadness", "invisibleObstacles", "colorBlind",
      "hyperspeed", "freezeFrame", "chaosMode", "perfectAccuracy">>

\* Array.prototype.filter, keeping the order of the array.
RECURSIVE Filter(_, _)
Filter(arr, keep) ==
    IF arr = <<>> THEN <<>>
    ELSE (IF Head(arr) \in keep THEN <<Head(arr)>> ELSE <<>>) \o Filter(Tail(arr), keep)

\* A faulty variant: the modifiers already selected stay available.
AvailableModifiers_NoFilter(selectedModifiers) == AllModifiers

\* variation.js line 139: allModifiers.filter(m => !selectedModifiers.includes(m))
AvailableModifiers(selectedModifiers) ==
    Filter(AllModifiers, Range(AllModifiers) \ Range(selectedModifiers))

\* variation.js line 136: 1 + Math.floor(rng() * 4)
NumModifiers(r) == 1 + FloorMul(r, 4)

\* variation.js lines 137-144: the loop, from iteration i on; draws[i + 1] is
\* the outcome of the rng() call of iteration i.
RECURSIVE SelectLoop(_, _, _, _)
SelectLoop(i, numModifiers, selectedModifiers, draws) ==
    IF i >= numModifiers THEN selectedModifiers
    ELSE LET availableModifiers == AvailableModifiers(selectedModifiers)
         IN  IF Len(availableModifiers) > 0
             THEN SelectLoop(i + 1, numModifiers,
                             Append(selectedModifiers,
                                    At(availableModifiers,
                                       FloorMul(draws[i + 1], Len(availableModifiers)),
                                       Undefined)),
                             draws)
             ELSE SelectLoop(i + 1, numModifiers, selectedModifiers, draws)

\* variation.js lines 127-144
SelectModifiers(r, draws) == SelectLoop(0, NumModifiers(r), <<>>, draws)

\* A call of the session-random generateVariation(gameId) about to be made:
\* r is the draw that will size the list, draws are the draws of the loop.
InitSession ==
    /\ salt = 0
    /\ first = [id \in GameIds |-> NoResult]
    /\ \E gameId \in {Str_snake, Str_breakout}, r \in RngOutcomes, draws \in [1..4 -> RngOutcomes] :
            last = [id |-> gameId,
                    result |-> [kind |-> "pending", r |-> r, draws |-> draws],
                    again |-> FALSE]

\* The call is made.
GenerateSessionVariation ==
    /\ last.result.kind = "pending"
    /\ last' = [last EXCEPT !.result =
                    [kind |-> "session",
                     modifiers |-> SelectModifiers(last.result.r, last.result.draws)]]
    /\ lastOp' = [op |-> "other"]
    /\ UNCHANGED <<salt, first, fetches, scheduler, halted, flappy, snakeVars, breakoutVars, launcherVars>>

NextSession == GenerateSessionVariation

(***************************************************************************)
(* What the game life cycles share: the network and the browser scheduler. *)
(***************************************************************************)
\* lastOp tells what the last step was: a tick of a game loop, a settled fetch
\* (with what it brought), or any other call or event.
Op(name) == [op |-> name]
Other == Op("other")

IdleShared == fetches = <<>> /\ scheduler = {} /\ halted = FALSE /\ lastOp = Op("init")

\* A JSON value of a response body.
JString(x) == [type |-> "string", str |-> x, num |-> 0]
JNumber(n) == [type |-> "number", str |-> "", num |-> n]
JNull == [type |-> "null", str |-> "", num |-> 0]

\* How a fetch settles: rejected (network error), a non-OK response, or an OK
\* response with a body.
NetworkError == [how |-> "rejected"]
NotOk == [how |-> "notOk"]
Ok(body) == [how |-> "ok", body |-> body]

\* requestAnimationFrame / setInterval: a new id, different from every pending one.
NewTimerId(sch) == CHOOSE n \in 1..(Cardinality(sch) + 1) : \A t \in sch : t.id # n
Frame(owner, id) == [kind |-> "frame", owner |-> owner, id |-> id]
\* cancelAnimationFrame(id) / clearInterval(id)
Cancel(sch, owner, id) == {t \in sch : ~(t.owner = owner /\ t.id = id)}

RemoveAt(seq, i) == SubSeq(seq, 1, i - 1) \o SubSeq(seq, i + 1, Len(seq))

(***************************************************************************)
(* FlappyGame: src/apps/frontend/games/flappy/index.ts                     *)
(* Numbers with a fraction (gravity) are in hundredths.                    *)
(***************************************************************************)
CANVAS_HEIGHT == 600
BIRD_RADIUS == 20
BIRD_FLAP_STRENGTH == -8
DEFAULT_GRAVITY == 50
DEFAULT_SEED == "default-flappy-seed"
DEFAULT_PIPE_GAP == 150
\* the bound of the sanity check on gravity (line 141), in hundredths
GRAVITY_LIMIT == 200

MaxObstacles == 2
MaxScore == 2

NoTimer == 0

\* The instance after the constructor returned (lines 56-98): the first fetch is
\* in flight; birdY, birdVelocity, score are still undefined, obstacles and
\* isGameOver too (written <<>> and FALSE: nothing reads them while loading).
FlappyConstructed ==
    [ birdY |-> UndefinedNumber, birdVelocity |-> UndefinedNumber,
      obstacles |-> <<>>, score |-> UndefinedNumber, isGameOver |-> FALSE,
      rng |-> Undefined,
      gameLoopId |-> NoTimer, lastPipeSpawnTime |-> 0, lastFrameTime |-> 0,
      currentGravity |-> DEFAULT_GRAVITY, currentPipeGap |-> DEFAULT_PIPE_GAP,
      currentSeed |-> DEFAULT_SEED, isLoadingVariations |-> TRUE,
      listeners |-> TRUE,
      \* the position of the async start(): "idle", or "resume" when its await
      \* has settled and its continuation is the next microtask
      pc |-> "idle",
      \* history
      epochStarted |-> FALSE,     \* Running was entered since the last resetGame
      startedIn |-> "none" ]      \* the phase in which the pending start() was invoked

\* The phase of section 4.3, read off the fields.
FlappyPhase(f) ==
    IF f.isLoadingVariations THEN "Loading"
    ELSE IF ~f.isGameOver THEN "Running"
    ELSE IF f.epochStarted THEN "GameOver"
    ELSE "Ready"

\* lines 139-141: the sanity check of the received data.
FlappyDataValid(d) ==
    /\ d.seed.type = "string"
    /\ d.gap.type = "number" /\ d.gap.num > (BIRD_RADIUS * 5) \div 2
    /\ d.gravity.type = "number" /\ d.gravity.num > 0 /\ d.gravity.num < GRAVITY_LIMIT

FlappyAccepts(outcome) == outcome.how = "ok" /\ FlappyDataValid(outcome.body)

\* A faulty variant: a failed fetch keeps the values applied before (as Breakout does).
FlappyApplyVariation_KeepOnFailure(f, outcome) ==
    IF FlappyAccepts(outcome)
    THEN [f EXCEPT !.currentSeed = outcome.body.seed.str,
                   !.currentGravity = outcome.body.gravity.num,
                   !.currentPipeGap = outcome.body.gap.num]
    ELSE f

\* lines 132-154: try { fetch, check, apply } catch { defaults }
FlappyApplyVariation(f, outcome) ==
    IF FlappyAccepts(outcome)
    THEN [f EXCEPT !.currentSeed = outcome.body.seed.str,
                   !.currentGravity = outcome.body.gravity.num,
                   !.currentPipeGap = outcome.body.gap.num]
    ELSE [f EXCEPT !.currentSeed = DEFAULT_SEED,
                   !.currentGravity = DEFAULT_GRAVITY,
                   !.currentPipeGap = DEFAULT_PIPE_GAP]

\* A faulty variant: resetGame leaves the score and the obstacles of the epoch.
FlappyResetGame_KeepsScore(f) ==
    [f EXCEPT !.isGameOver = TRUE, !.birdY = CANVAS_HEIGHT \div 2, !.birdVelocity = 0,
              !.lastPipeSpawnTime = 0, !.lastFrameTime = 0,
              !.gameLoopId = NoTimer, !.epochStarted = FALSE]

\* lines 162-181: resetGame (the cancelAnimationFrame of line 177 is FlappyResetTimers)
FlappyResetGame(f) ==
    [f EXCEPT !.isGameOver = TRUE, !.birdY = CANVAS_HEIGHT \div 2, !.birdVelocity = 0,
              !.obstacles = <<>>, !.score = 0,
              !.lastPipeSpawnTime = 0, !.lastFrameTime = 0,
              !.gameLoopId = NoTimer, !.epochStarted = FALSE]

\* lines 210-223: stop(), on the fields
FlappyStopped(f) ==
    IF f.gameLoopId # NoTimer
    THEN [f EXCEPT !.gameLoopId = NoTimer, !.lastFrameTime = 0]
    ELSE f

\* lines 183-194 and 128-131 on the fields: start() up to its await.
FlappyStartCalled(f) ==
    [FlappyStopped(f) EXCEPT !.isLoadingVariations = TRUE, !.startedIn = FlappyPhase(f)]

\* lines 128-131 and 183-194: start() up to its await.  It returns at once while
\* loading; else it stops a running loop and sends the fetch.
FlappyStartCall ==
    /\ ~flappy.isLoadingVariations
    /\ scheduler' = Cancel(scheduler, "flappy", flappy.gameLoopId)
    /\ flappy' = FlappyStartCalled(flappy)
    /\ fetches' = Append(fetches, [game |-> "flappy", by |-> "start"])
    /\ halted' = FALSE

\* Only the Flappy instance, the network and the scheduler change.
OnlyFlappy == UNCHANGED <<variationVars, snakeVars, breakoutVars, launcherVars>>

\* The caller invokes the public start().
FlappyStart ==
    /\ OnlyFlappy
    /\ flappy.pc = "idle"
    /\ FlappyStartCall
    /\ lastOp' = Other

\* lines 239-252: handleInput on Space or a mouse click.
FlappyHandleInput ==
    /\ OnlyFlappy
    /\ flappy.pc = "idle" /\ flappy.listeners
    /\ ~flappy.isLoadingVariations
    /\ IF flappy.isGameOver
       THEN FlappyStartCall
       ELSE \* flap(), lines 225-230
            /\ flappy' = [flappy EXCEPT !.birdVelocity = BIRD_FLAP_STRENGTH]
            /\ UNCHANGED <<fetches, scheduler, halted>>
    /\ lastOp' = Other

\* lines 232-237: _requestRestartByKey on Enter.
FlappyRequestRestartByKey ==
    /\ OnlyFlappy
    /\ flappy.pc = "idle" /\ flappy.listeners
    /\ flappy.isGameOver /\ ~flappy.isLoadingVariations
    /\ FlappyStartCall
    /\ lastOp' = Other

\* The bodies a Flappy fetch may bring.
FlappySeeds == {JString("seed-a"), JString("seed-b"), JNumber(42)}
FlappyGaps == {JString("wide"), JNumber(50), JNumber(51), JNumber(180)}
FlappyGravities == {JNull, JNumber(0), JNumber(55), JNumber(200)}
FlappyBodies == [seed : FlappySeeds, gap : FlappyGaps, gravity : FlappyGravities]
FlappyOutcomes == {NetworkError, NotOk} \cup {Ok(b) : b \in FlappyBodies}

\* lines 132-159 on the fields: try/catch/finally of fetchVariationAndInitialize,
\* the generator seeded with the applied seed, then resetGame.
FlappySettled(f, outcome) ==
    LET applied == FlappyApplyVariation(f, outcome)
    IN  FlappyResetGame([applied EXCEPT !.rng = applied.currentSeed,
                                        !.isLoadingVariations = FALSE])

\* lines 198-207 on the fields: start() after its await; id is the frame it
\* requests when no loop is running.
FlappyResumed(f, id) ==
    [f EXCEPT !.isGameOver = FALSE, !.lastPipeSpawnTime = 1, !.lastFrameTime = 1,
              !.gameLoopId = IF @ = NoTimer THEN id ELSE @,
              !.epochStarted = TRUE, !.pc = "idle", !.startedIn = "none"]

\* What a settling fetch finds: the applied bundle and the epoch's score and obstacles.
FlappyBefore(f) ==
    [seed |-> f.currentSeed, gravity |-> f.currentGravity, gap |-> f.currentPipeGap,
     score |-> f.score, obstacles |-> Len(f.obstacles)]

\* A fetch settles (lines 132-159).  When start() awaits it, start's
\* continuation is the next microtask.
FlappyFetchSettles ==
    \E i \in DOMAIN fetches, outcome \in FlappyOutcomes :
        /\ flappy.pc = "idle"
        /\ fetches[i].game = "flappy"
        /\ OnlyFlappy
        /\ fetches' = RemoveAt(fetches, i)
        /\ scheduler' = Cancel(scheduler, "flappy", flappy.gameLoopId)
        /\ flappy' = [FlappySettled(flappy, outcome) EXCEPT
                        !.pc = IF fetches[i].by = "start" THEN "resume" ELSE "idle"]
        /\ lastOp' = [op |-> "fetchSettled", outcome |-> outcome,
                      before |-> FlappyBefore(flappy)]
        /\ UNCHANGED halted

\* lines 198-207: start() after its await.
FlappyStartResumes ==
    /\ OnlyFlappy
    /\ flappy.pc = "resume"
    /\ LET id == NewTimerId(scheduler)
       IN  /\ flappy' = FlappyResumed(flappy, id)
           /\ scheduler' = IF flappy.gameLoopId = NoTimer
                           THEN scheduler \cup {Frame("flappy", id)}
                           ELSE scheduler
    /\ lastOp' = [op |-> "startResumed", outcome |-> lastOp.outcome,
                  before |-> lastOp.before, startedIn |-> flappy.startedIn]
    /\ UNCHANGED <<fetches, halted>>

\* The caller invokes stop() (lines 210-223).
FlappyStop ==
    /\ OnlyFlappy
    /\ flappy.pc = "idle"
    /\ scheduler' = Cancel(scheduler, "flappy", flappy.gameLoopId)
    /\ flappy' = FlappyStopped(flappy)
    /\ halted' = TRUE
    /\ lastOp' = Other
    /\ UNCHANGED fetches

\* The caller invokes destroy() (lines 412-416): stop() and removeInputListeners().
FlappyDestroy ==
    /\ OnlyFlappy
    /\ flappy.pc = "idle"
    /\ scheduler' = Cancel(scheduler, "flappy", flappy.gameLoopId)
    /\ flappy' = [FlappyStopped(flappy) EXCEPT !.listeners = FALSE]
    /\ halted' = TRUE
    /\ lastOp' = Other
    /\ UNCHANGED fetches

\* Where a tick may leave the bird: in the air (a sample height and speed),
\* clamped at the ceiling, or on the floor.
BirdAirY == {CANVAS_HEIGHT \div 4}
BirdAirVelocity == {3}

\* lines 270-327: update(deltaTime) while Running.  The arithmetic of the
\* physics is the environment's here: the tick ends on the floor (lines 280-287),
\* in a pipe (lines 313-319), or goes on, with or without a spawn (lines 289-293),
\* an obstacle leaving the screen (lines 299-302) and an obstacle passed
\* (lines 322-325).
FlappyUpdate(f, o) ==
    IF o.end = "floor"
    THEN [FlappyStopped(f) EXCEPT !.birdY = CANVAS_HEIGHT - BIRD_RADIUS,
                                   !.birdVelocity = 0, !.isGameOver = TRUE]
    ELSE LET moved == [f EXCEPT !.birdY = o.birdY, !.birdVelocity = o.birdVelocity]
             spawned == IF o.spawn
                        THEN [moved EXCEPT !.obstacles = Append(@, [passed |-> FALSE]),
                                           !.lastPipeSpawnTime = 1]
                        ELSE moved
         IN  IF o.end = "pipe"
             THEN [FlappyStopped(spawned) EXCEPT !.isGameOver = TRUE]
             ELSE LET left == IF o.gone THEN [spawned EXCEPT !.obstacles = Tail(@)]
                              ELSE spawned
                      k == IF \E n \in DOMAIN left.obstacles : ~left.obstacles[n].passed
                           THEN CHOOSE n \in DOMAIN left.obstacles :
                                    /\ ~left.obstacles[n].passed
                                    /\ \A m \in 1..(n - 1) : left.obstacles[m].passed
                           ELSE 0
                  IN  IF o.pass /\ k # 0
                      THEN [left EXCEPT !.obstacles[k].passed = TRUE, !.score = @ + 1]
                      ELSE left

\* The outcomes of one update the environment may choose in state f.
FlappyUpdateOutcomes(f) ==
    { o \in [end : {"floor", "pipe", "on"}, birdY : BirdAirY \cup {BIRD_RADIUS},
             birdVelocity : BirdAirVelocity \cup {0},
             spawn : BOOLEAN, gone : BOOLEAN, pass : BOOLEAN] :
        /\ (o.birdY = BIRD_RADIUS) <=> (o.birdVelocity = 0)
        /\ o.end = "floor" => (~o.spawn /\ ~o.gone /\ ~o.pass
                               /\ o.birdY = BIRD_RADIUS)
        /\ o.spawn => Len(f.obstacles) < MaxObstacles
        /\ o.end = "pipe" => (Len(f.obstacles) > 0 \/ o.spawn) /\ ~o.gone /\ ~o.pass
        /\ o.gone => (Len(f.obstacles) > 0 /\ f.obstacles[1].passed)
        /\ o.pass => f.score < MaxScore }

\* lines 100-112: drawLoadingOrReadyState(), the text it centres
FlappyDrawLoadingOrReadyState(f) ==
    IF f.isLoadingVariations THEN [text |-> "Loading Variations...", overlay |-> FALSE]
    ELSE [text |-> "Press Space or Click to Start", overlay |-> FALSE]

\* lines 329-385: draw(ctx), the text it centres on the frame and whether the
\* game-over overlay with "Score: " + score is on it
FlappyDraw(f) ==
    IF f.isLoadingVariations THEN FlappyDrawLoadingOrReadyState(f)
    ELSE IF f.isGameOver /\ Len(f.obstacles) = 0 /\ f.score = 0
         THEN FlappyDrawLoadingOrReadyState(f)
    ELSE IF f.isGameOver THEN [text |-> "Game Over!", overlay |-> TRUE]
    ELSE [text |-> "", overlay |-> FALSE]

\* lines 387-410: gameLoop(timestamp), the animation-frame callback.
FlappyGameLoop ==
    \E t \in scheduler :
        /\ flappy.pc = "idle"
        /\ t.owner = "flappy"
        /\ OnlyFlappy
        /\ IF flappy.isGameOver \/ flappy.isLoadingVariations
           THEN /\ flappy' = FlappyStopped(flappy)
                /\ scheduler' = Cancel(scheduler \ {t}, "flappy", flappy.gameLoopId)
                /\ lastOp' = Other
           ELSE \E o \in FlappyUpdateOutcomes(flappy) :
                    LET updated == FlappyUpdate([flappy EXCEPT !.lastFrameTime = 1], o)
                        id == NewTimerId(scheduler \ {t})
                    IN  /\ IF ~updated.isGameOver
                           THEN /\ flappy' = [updated EXCEPT !.gameLoopId = id]
                                /\ scheduler' = (scheduler \ {t}) \cup {Frame("flappy", id)}
                           ELSE /\ flappy' = updated
                                /\ scheduler' = Cancel(scheduler \ {t}, "flappy", flappy.gameLoopId)
                        /\ lastOp' = Op("tick")
        /\ UNCHANGED <<fetches, halted>>

InitFlappy ==
    /\ flappy = FlappyConstructed
    /\ fetches = <<[game |-> "flappy", by |-> "constructor"]>>
    /\ scheduler = {}
    /\ halted = FALSE
    /\ lastOp = Op("init")

IdleFlappy == flappy = NULL

NextFlappy ==
    \/ FlappyStart
    \/ FlappyHandleInput
    \/ FlappyRequestRestartByKey
    \/ FlappyFetchSettles
    \/ FlappyStartResumes
    \/ FlappyStop
    \/ FlappyDestroy
    \/ FlappyGameLoop

(***************************************************************************)
(* SnakeGame: src/apps/frontend/games/snake/index.ts                       *)
(* The grid arithmetic of update() is the environment's here; the fields   *)
(* of the life cycle are the code's.                                       *)
(***************************************************************************)
SNAKE_DEFAULT_SPEED == 150
Unseeded == "unseeded"

SnakeMaxScore == 2
MaxInFlight == 2

Interval(owner, id, period) == [kind |-> "interval", owner |-> owner, id |-> id, period |-> period]

NoOutcome == [how |-> "none"]

\* The instance after the constructor returned (lines 35-52): one segment,
\* heading right, the default speed, an unseeded generator, no interval yet,
\* the first fetch in flight.
SnakeConstructed ==
    [ segments |-> 1, direction |-> <<1, 0>>, score |-> 0, isGameOver |-> FALSE,
      gameSpeed |-> SNAKE_DEFAULT_SPEED, rng |-> Unseeded, gameInterval |-> NoTimer,
      \* history: how the most recently started fetch settled, once it has
      newest |-> NoOutcome ]

\* The bodies the variation service may send for Snake.
SnakeBodies ==
    [seed : {"seed-a", "seed-b"}, speed : {75, 300}, color : {"blue"}, foodColor : {"pink"}]
SnakeOutcomes == {NetworkError, NotOk} \cup {Ok(b) : b \in SnakeBodies}

\* Only the Snake instance, its module-level colours, the network and the
\* scheduler change.
OnlySnake == UNCHANGED <<variationVars, flappy, breakoutVars, launcherVars>>

\* line 56: fetch('/api/variation/snake'); every fetch in flight so far is no
\* longer the most recently started one.
SnakeFetchSent(fs, by) ==
    [i \in DOMAIN fs |-> [fs[i] EXCEPT !.newest = FALSE]]
        \o <<[game |-> "snake", by |-> by, newest |-> TRUE]>>

\* lines 79-90 on the fields: resetGame (the timer is SnakeResetTimers).
SnakeResetGame(g, id) ==
    [g EXCEPT !.isGameOver = FALSE, !.segments = 1, !.direction = <<1, 0>>,
              !.score = 0, !.gameInterval = id]

\* lines 85-88: clearInterval of the old timer, setInterval with the current speed.
SnakeResetTimers(sch, g, id) ==
    Cancel(sch, "snake", g.gameInterval) \cup {Interval("snake", id, g.gameSpeed)}

\* lines 55-76 on the fields: try { apply } catch { nothing }.
SnakeApplyVariation(g, outcome) ==
    IF outcome.how = "ok"
    THEN [g EXCEPT !.rng = outcome.body.seed, !.gameSpeed = outcome.body.speed]
    ELSE g

\* lines 54-77: a fetch settles, in any order with the others in flight.
SnakeFetchSettles ==
    \E i \in DOMAIN fetches, outcome \in SnakeOutcomes :
        /\ fetches[i].game = "snake"
        /\ OnlySnake
        /\ fetches' = RemoveAt(fetches, i)
        /\ LET applied == SnakeApplyVariation(snake, outcome)
               id == NewTimerId(Cancel(scheduler, "snake", snake.gameInterval))
           IN  /\ snake' = [SnakeResetGame(applied, id) EXCEPT
                              !.newest = IF fetches[i].newest THEN outcome ELSE @]
               /\ scheduler' = SnakeResetTimers(scheduler, applied, id)
        /\ SNAKE_COLOR' = IF outcome.how = "ok" THEN outcome.body.color ELSE SNAKE_COLOR
        /\ FOOD_COLOR' = IF outcome.how = "ok" THEN outcome.body.foodColor ELSE FOOD_COLOR
        /\ lastOp' = [op |-> "fetchSettled", outcome |-> outcome,
                      stale |-> ~fetches[i].newest,
                      before |-> [rng |-> snake.rng, gameSpeed |-> snake.gameSpeed,
                                  color |-> SNAKE_COLOR, running |-> ~snake.isGameOver,
                                  score |-> snake.score]]
        /\ UNCHANGED halted

\* lines 92-100: start(); the generator is always set, so it is resetGame().
SnakeStart ==
    /\ OnlySnake
    /\ LET id == NewTimerId(Cancel(scheduler, "snake", snake.gameInterval))
       IN  /\ snake' = SnakeResetGame(snake, id)
           /\ scheduler' = SnakeResetTimers(scheduler, snake, id)
    /\ halted' = FALSE
    /\ lastOp' = Other
    /\ UNCHANGED <<fetches, SNAKE_COLOR, FOOD_COLOR>>

\* lines 102-108: stop().
SnakeStop ==
    /\ OnlySnake
    /\ scheduler' = Cancel(scheduler, "snake", snake.gameInterval)
    /\ snake' = [snake EXCEPT !.gameInterval = NoTimer]
    /\ halted' = TRUE
    /\ lastOp' = Other
    /\ UNCHANGED <<fetches, SNAKE_COLOR, FOOD_COLOR>>

ArrowKeys == {<<0, -1>>, <<0, 1>>, <<-1, 0>>, <<1, 0>>}

\* lines 196-204: handleKeyPress with Enter; it restarts in GameOver only, and
\* the listener is never removed.
SnakePressEnter ==
    /\ OnlySnake
    /\ Len(fetches) < MaxInFlight
    /\ IF snake.isGameOver
       THEN /\ fetches' = SnakeFetchSent(fetches, "enter")
            /\ snake' = [snake EXCEPT !.newest = NoOutcome]
            /\ halted' = FALSE
       ELSE UNCHANGED <<fetches, snake, halted>>
    /\ lastOp' = Other
    /\ UNCHANGED <<scheduler, SNAKE_COLOR, FOOD_COLOR>>

\* lines 206-227: handleKeyPress with an arrow key; a turn is taken only across
\* the current direction.
SnakePressArrow ==
    \E d \in ArrowKeys :
        /\ OnlySnake
        /\ ~snake.isGameOver
        /\ snake' = IF (d[1] = 0 /\ snake.direction[2] = 0) \/ (d[2] = 0 /\ snake.direction[1] = 0)
                    THEN [snake EXCEPT !.direction = d]
                    ELSE snake
        /\ lastOp' = Other
        /\ UNCHANGED <<fetches, scheduler, halted, SNAKE_COLOR, FOOD_COLOR>>

\* lines 110-140: update(); it hits a wall or the snake itself (lines 117-129),
\* eats (lines 134-136) or moves on (line 138).
SnakeUpdate(g, o) ==
    IF g.isGameOver THEN g
    ELSE IF o \in {"wall", "self"} THEN [g EXCEPT !.isGameOver = TRUE]
    ELSE IF o = "eat" THEN [g EXCEPT !.score = @ + 1, !.segments = @ + 1]
    ELSE g

SnakeUpdateOutcomes(g) ==
    {"wall", "move"} \cup (IF g.segments > 1 THEN {"self"} ELSE {})
                     \cup (IF g.score < SnakeMaxScore THEN {"eat"} ELSE {})

\* lines 175-178: gameLoop(), the interval callback: update() and draw().
SnakeGameLoop ==
    \E t \in scheduler, o \in SnakeUpdateOutcomes(snake) :
        /\ t.owner = "snake"
        /\ OnlySnake
        /\ snake' = SnakeUpdate(snake, o)
        /\ lastOp' = [op |-> "tick", period |-> t.period]
        /\ UNCHANGED <<fetches, scheduler, halted, SNAKE_COLOR, FOOD_COLOR>>

InitSnake ==
    /\ snake = SnakeConstructed
    /\ SNAKE_COLOR = "green" /\ FOOD_COLOR = "red"
    /\ fetches = SnakeFetchSent(<<>>, "constructor")
    /\ scheduler = {}
    /\ halted = FALSE
    /\ lastOp = Op("init")

IdleSnake == snake = NULL /\ SNAKE_COLOR = "green" /\ FOOD_COLOR = "red"

NextSnake ==
    \/ SnakeFetchSettles
    \/ SnakeStart
    \/ SnakeStop
    \/ SnakePressEnter
    \/ SnakePressArrow
    \/ SnakeGameLoop

(***************************************************************************)
(* BreakoutGame: src/apps/frontend/src/games/flappy.ts, lines 508-870      *)
(* Lengths and the speed multiplier are in hundredths.  The geometry of    *)
(* collisionDetection() is the environment's here.                         *)
(***************************************************************************)
BREAKOUT_CANVAS_WIDTH == 40000
DEFAULT_PADDLE_WIDTH == 7500
DEFAULT_BALL_SPEED_MULTIPLIER == 100
BRICK_ROW_COUNT == 5
BRICK_COLUMN_COUNT == 7
BREAKOUT_LIVES == 3

\* lines 606-610 and 614-618: the switch statements; no case matches a missing field.
PaddleWidthOf(paddleSize, current) ==
    CASE paddleSize = "small" -> 5000
      [] paddleSize = "medium" -> 7500
      [] paddleSize = "large" -> 10000
      [] OTHER -> current

BallSpeedOf(ballSpeed, current) ==
    CASE ballSpeed = "slow" -> 75
      [] ballSpeed = "normal" -> 100
      [] ballSpeed = "fast" -> 150
      [] OTHER -> current

\* The instance after the constructor returned (lines 565-592), with the
\* module-level paddle width pw as it finds it: the first fetch is in flight.
BreakoutConstructed(pw) ==
    [ rng |-> Unseeded, paddleX |-> (BREAKOUT_CANVAS_WIDTH - pw) \div 2,
      ballSpeedY |-> 200, score |-> 0, lives |-> BREAKOUT_LIVES, isGameOver |-> FALSE,
      animationFrameId |-> NoTimer, restartListener |-> FALSE ]

\* The bodies the variation service may send for Breakout; the last is the
\* body of an error result, which has none of the fields.
BreakoutBodies ==
    [seed : {"seed-a"}, paddleSize : {"small", "large"}, ballSpeed : {"slow", "fast"}]
        \cup {[seed |-> Undefined, paddleSize |-> Undefined, ballSpeed |-> Undefined]}
BreakoutOutcomes == {NetworkError, NotOk} \cup {Ok(b) : b \in BreakoutBodies}

\* Only the Breakout instance, its module-level variables, the network and the
\* scheduler change.
OnlyBreakout == UNCHANGED <<variationVars, flappy, snakeVars, launcherVars>>

\* What one update() does to the ball: it destroys a brick, it is lost below
\* the paddle, or it moves on.
BreakoutUpdateOutcomes(b) ==
    {"move", "miss"} \cup (IF b.score < BRICK_ROW_COUNT * BRICK_COLUMN_COUNT THEN {"brick"} ELSE {})

\* lines 694-762: update() and collisionDetection(), with paddle width pw and
\* multiplier m.
BreakoutUpdate(b, o, pw, m) ==
    IF b.isGameOver THEN b
    ELSE IF o = "brick"
         THEN [b EXCEPT !.score = @ + 1,
                        !.isGameOver = (b.score + 1 = BRICK_ROW_COUNT * BRICK_COLUMN_COUNT)]
    ELSE IF o = "miss"
         THEN IF b.lives - 1 <= 0
              THEN [b EXCEPT !.lives = @ - 1, !.isGameOver = TRUE]
              ELSE [b EXCEPT !.lives = @ - 1, !.ballSpeedY = 2 * m,
                             !.paddleX = (BREAKOUT_CANVAS_WIDTH - pw) \div 2]
    ELSE b

\* lines 846-860: gameLoop(), called directly or as the animation-frame
\* callback; it gives the instance and the scheduler it leaves.
BreakoutGameLoopRun(b, sch, o, pw, m) ==
    IF ~b.isGameOver
    THEN LET id == NewTimerId(sch)
         IN  [b |-> [BreakoutUpdate(b, o, pw, m) EXCEPT !.animationFrameId = id],
              sch |-> sch \cup {Frame("breakout", id)}, ticked |-> TRUE]
    ELSE [b |-> [b EXCEPT !.animationFrameId = NoTimer, !.restartListener = TRUE],
          sch |-> Cancel(sch, "breakout", b.animationFrameId), ticked |-> TRUE]

\* lines 653-670: resetGame(); it calls gameLoop() when no frame is requested.
BreakoutResetGame(b, sch, o, pw, m) ==
    LET reset == [b EXCEPT !.isGameOver = FALSE, !.score = 0, !.lives = BREAKOUT_LIVES,
                           !.ballSpeedY = 2 * m,
                           !.paddleX = (BREAKOUT_CANVAS_WIDTH - pw) \div 2]
    IN  IF reset.animationFrameId = NoTimer
        THEN BreakoutGameLoopRun(reset, sch, o, pw, m)
        ELSE [b |-> reset, sch |-> sch, ticked |-> FALSE]

\* lines 595-625: what the try/catch leaves in PADDLE_WIDTH and BALL_SPEED_MULTIPLIER.
BreakoutApplyVariation(outcome, pw, m) ==
    IF outcome.how = "ok"
    THEN [pw |-> PaddleWidthOf(outcome.body.paddleSize, pw),
          m |-> BallSpeedOf(outcome.body.ballSpeed, m)]
    ELSE [pw |-> pw, m |-> m]

\* lines 594-631: a fetch settles: try { apply } catch { nothing } finally { resetGame }.
BreakoutFetchSettles ==
    \E i \in DOMAIN fetches, outcome \in BreakoutOutcomes, o \in {"move", "brick", "miss"} :
        /\ fetches[i].game = "breakout"
        /\ OnlyBreakout
        /\ fetches' = RemoveAt(fetches, i)
        /\ LET applied == BreakoutApplyVariation(outcome, PADDLE_WIDTH, BALL_SPEED_MULTIPLIER)
               seeded == IF outcome.how = "ok"
                         THEN [breakout EXCEPT !.rng = IF outcome.body.seed = Undefined
                                                       THEN Unseeded ELSE outcome.body.seed]
                         ELSE breakout
               r == BreakoutResetGame(seeded, scheduler, o, applied.pw, applied.m)
           IN  /\ o \in BreakoutUpdateOutcomes([seeded EXCEPT !.score = 0])
               /\ r.ticked \/ o = "move"
               /\ PADDLE_WIDTH' = applied.pw
               /\ BALL_SPEED_MULTIPLIER' = applied.m
               /\ breakout' = r.b
               /\ scheduler' = r.sch
               /\ lastOp' = [op |-> "fetchSettled", outcome |-> outcome, ticked |-> r.ticked,
                             before |-> [pw |-> PADDLE_WIDTH, m |-> BALL_SPEED_MULTIPLIER]]
        /\ UNCHANGED halted

\* lines 672-682: start().
BreakoutStart ==
    \E o \in BreakoutUpdateOutcomes(breakout) :
        /\ OnlyBreakout
        /\ IF breakout.isGameOver
           THEN /\ Len(fetches) < MaxInFlight
                /\ o = "move"
                /\ fetches' = Append(fetches, [game |-> "breakout", by |-> "restart"])
                /\ UNCHANGED <<breakout, scheduler>>
                /\ lastOp' = Other
           ELSE IF breakout.animationFrameId = NoTimer
           THEN LET r == BreakoutGameLoopRun(breakout, scheduler, o,
                                             PADDLE_WIDTH, BALL_SPEED_MULTIPLIER)
                IN  /\ breakout' = r.b
                    /\ scheduler' = r.sch
                    /\ lastOp' = Op("tick")
                    /\ UNCHANGED fetches
           ELSE /\ o = "move"
                /\ UNCHANGED <<breakout, scheduler, fetches>>
                /\ lastOp' = Other
        /\ halted' = FALSE
        /\ UNCHANGED <<PADDLE_WIDTH, BALL_SPEED_MULTIPLIER>>

\* lines 684-692: stop().
BreakoutStop ==
    /\ OnlyBreakout
    /\ scheduler' = Cancel(scheduler, "breakout", breakout.animationFrameId)
    /\ breakout' = [breakout EXCEPT !.animationFrameId = NoTimer, !.restartListener = FALSE]
    /\ halted' = TRUE
    /\ lastOp' = Other
    /\ UNCHANGED <<fetches, PADDLE_WIDTH, BALL_SPEED_MULTIPLIER>>

\* lines 862-869: handleRestartClick, registered once by gameLoop in GameOver.
BreakoutHandleRestartClick ==
    /\ OnlyBreakout
    /\ breakout.restartListener
    /\ Len(fetches) < MaxInFlight
    /\ IF breakout.isGameOver
       THEN /\ fetches' = Append(fetches, [game |-> "breakout", by |-> "restart"])
            /\ halted' = FALSE
       ELSE UNCHANGED <<fetches, halted>>
    /\ breakout' = [breakout EXCEPT !.restartListener = FALSE]
    /\ lastOp' = Other
    /\ UNCHANGED <<scheduler, PADDLE_WIDTH, BALL_SPEED_MULTIPLIER>>

\* Where the mouse may be, relative to the canvas (hundredths of a pixel).
MouseX == {100, 39900}

\* lines 633-641: the mousemove listener; it is never removed.
BreakoutMouseMove ==
    \E relativeX \in MouseX :
        /\ OnlyBreakout
        /\ LET wanted == relativeX - PADDLE_WIDTH \div 2
               low == IF wanted > 0 THEN wanted ELSE 0
               high == BREAKOUT_CANVAS_WIDTH - PADDLE_WIDTH
           IN  breakout' = [breakout EXCEPT !.paddleX = IF low < high THEN low ELSE high]
        /\ lastOp' = Other
        /\ UNCHANGED <<fetches, scheduler, halted, PADDLE_WIDTH, BALL_SPEED_MULTIPLIER>>

\* The animation-frame callback: gameLoop (lines 846-860).
BreakoutFrame ==
    \E t \in scheduler, o \in BreakoutUpdateOutcomes(breakout) :
        /\ t.owner = "breakout"
        /\ OnlyBreakout
        /\ breakout.isGameOver => o = "move"
        /\ LET r == BreakoutGameLoopRun(breakout, scheduler \ {t}, o,
                                        PADDLE_WIDTH, BALL_SPEED_MULTIPLIER)
           IN  /\ breakout' = r.b
               /\ scheduler' = r.sch
        /\ lastOp' = Op("tick")
        /\ UNCHANGED <<fetches, halted, PADDLE_WIDTH, BALL_SPEED_MULTIPLIER>>

\* The launcher stops the instance and constructs another BreakoutGame
\* (lines 565-592); the module-level variables are what the last one left.
BreakoutConstructAnother ==
    /\ OnlyBreakout
    /\ fetches = <<>> /\ breakout.animationFrameId = NoTimer
    /\ breakout' = BreakoutConstructed(PADDLE_WIDTH)
    /\ fetches' = <<[game |-> "breakout", by |-> "constructor"]>>
    /\ halted' = FALSE
    /\ lastOp' = Other
    /\ UNCHANGED <<scheduler, PADDLE_WIDTH, BALL_SPEED_MULTIPLIER>>

InitBreakout ==
    /\ PADDLE_WIDTH = DEFAULT_PADDLE_WIDTH
    /\ BALL_SPEED_MULTIPLIER = DEFAULT_BALL_SPEED_MULTIPLIER
    /\ breakout = BreakoutConstructed(DEFAULT_PADDLE_WIDTH)
    /\ fetches = <<[game |-> "breakout", by |-> "constructor"]>>
    /\ scheduler = {}
    /\ halted = FALSE
    /\ lastOp = Op("init")

IdleBreakout ==
    /\ breakout = NULL
    /\ PADDLE_WIDTH = DEFAULT_PADDLE_WIDTH
    /\ BALL_SPEED_MULTIPLIER = DEFAULT_BALL_SPEED_MULTIPLIER

NextBreakout ==
    \/ BreakoutFetchSettles
    \/ BreakoutStart
    \/ BreakoutStop
    \/ BreakoutHandleRestartClick
    \/ BreakoutMouseMove
    \/ BreakoutFrame
    \/ BreakoutConstructAnother
(***************************************************************************)
(* The launcher: src/apps/frontend/src/main.ts                             *)
(* An instance is seen from outside: which game it is, whether its loop is *)
(* drawing, whether its constructor's fetch is in flight.                  *)
(***************************************************************************)
MaxLaunches == 3

NoGame == 0
LauncherGameIds == {"snake", "flappy", "breakout"}

\* new SnakeGame(canvasId) and new BreakoutGame(canvasId) return with their
\* fetch in flight and no loop yet (snake/index.ts lines 35-52, flappy.ts lines
\* 565-592); the Flappy Game starts its loop in the constructor
\* (src/games/flappy/index.ts lines 60-114).
Constructed(gameId) ==
    [kind |-> gameId, looping |-> gameId = "flappy", fetching |-> gameId # "flappy"]

\* lines 46-52 and 126-132: destroy() if the instance has it, else stop() if it
\* has it.  SnakeGame and BreakoutGame have stop() only, which clears the timer;
\* the Flappy Game class has neither, and its loop goes on.
TornDown(insts, g) ==
    IF g = NoGame THEN insts
    ELSE IF insts[g].kind = "flappy" THEN insts
    ELSE [insts EXCEPT ![g].looping = FALSE]

OnlyLauncher == UNCHANGED <<variationVars, sharedVars, flappy, snakeVars, breakoutVars>>

\* lines 45-63: a play button is clicked (the buttons show on the menu only):
\* launchGame up to its first await.
LaunchGame ==
    \E gameId \in LauncherGameIds :
        /\ OnlyLauncher
        /\ screenShown = "menu"
        /\ Len(instances) + Len(launches) < MaxLaunches
        /\ instances' = TornDown(instances, currentGame)
        /\ currentGame' = NoGame
        /\ screenShown' = "game"
        /\ launches' = Append(launches, [gameId |-> gameId, pc |-> "import"])

\* lines 66-90: the module import of a launch settles.  Snake and Breakout are
\* constructed at once; Flappy awaits startGame, which fetches first.
LaunchImportSettles ==
    \E i \in DOMAIN launches, loaded \in BOOLEAN :
        /\ OnlyLauncher
        /\ launches[i].pc = "import"
        /\ IF ~loaded
           THEN \* lines 105-107: catch, back to the menu
                /\ launches' = RemoveAt(launches, i)
                /\ screenShown' = "menu"
                /\ UNCHANGED <<instances, currentGame>>
           ELSE IF launches[i].gameId = "flappy"
           THEN /\ launches' = [launches EXCEPT ![i].pc = "startGame"]
                /\ UNCHANGED <<instances, currentGame, screenShown>>
           ELSE /\ launches' = RemoveAt(launches, i)
                /\ instances' = Append(instances, Constructed(launches[i].gameId))
                /\ currentGame' = Len(instances) + 1
                /\ UNCHANGED screenShown

\* line 79 and src/games/flappy/index.ts lines 275-278: startGame's fetch
\* settles (a failure gives null, not an exception) and the Game is constructed.
LaunchStartGameSettles ==
    \E i \in DOMAIN launches :
        /\ OnlyLauncher
        /\ launches[i].pc = "startGame"
        /\ launches' = RemoveAt(launches, i)
        /\ instances' = Append(instances, Constructed("flappy"))
        /\ currentGame' = Len(instances) + 1
        /\ UNCHANGED screenShown

\* The constructor's fetch of a Snake or Breakout instance settles: resetGame
\* starts the loop (snake/index.ts lines 79-90, flappy.ts lines 653-670).
InstanceFetchSettles ==
    \E k \in DOMAIN instances :
        /\ OnlyLauncher
        /\ instances[k].fetching
        /\ instances' = [instances EXCEPT ![k].fetching = FALSE, ![k].looping = TRUE]
        /\ UNCHANGED <<currentGame, launches, screenShown>>

\* lines 124-137: Back to menu is clicked (the button shows with the canvas only).
BackToMenu ==
    /\ OnlyLauncher
    /\ screenShown = "game"
    /\ instances' = TornDown(instances, currentGame)
    /\ currentGame' = NoGame
    /\ screenShown' = "menu"
    /\ UNCHANGED launches

InitLauncher ==
    /\ currentGame = NoGame
    /\ instances = <<>>
    /\ launches = <<>>
    /\ screenShown = "menu"

IdleLauncher == currentGame = NoGame /\ instances = <<>> /\ launches = <<>> /\ screenShown = "menu"

NextLauncher ==
    \/ LaunchGame
    \/ LaunchImportSettles
    \/ LaunchStartGameSettles
    \/ InstanceFetchSettles
    \/ BackToMenu


(***************************************************************************)
(* The themed SnakeGame on its grid: positions, walls, food.  The bundle   *)
(* carries neither 'ghostMode' nor 'invertedControls' and one food type;   *)
(* the score and the drawing are left out.                                 *)
(***************************************************************************)
THEMED_GRID_SIZE == 20
\* The canvas is SnakeCols and a half cells wide and SnakeRows and a half high.
SnakeCols == 5
SnakeRows == 4
\* gameSpecific.maxLength of the bundle
SnakeMaxLength == 4
SnakeCanvasWidth == SnakeCols * THEMED_GRID_SIZE + THEMED_GRID_SIZE \div 2
SnakeCanvasHeight == SnakeRows * THEMED_GRID_SIZE + THEMED_GRID_SIZE \div 2

\* part_006 lines 242-243: Math.floor(canvas.width / gridSize)
GridMaxX == SnakeCanvasWidth \div THEMED_GRID_SIZE
GridMaxY == SnakeCanvasHeight \div THEMED_GRID_SIZE

Pos(x, y) == [x |-> x, y |-> y]
OnAny(p, arr) == \E i \in DOMAIN arr : arr[i] = p
InsideGrid(p) == p.x >= 0 /\ p.x < GridMaxX /\ p.y >= 0 /\ p.y < GridMaxY

\* part_006 lines 151-169: initGame, before the food is generated.
ThemedInitGame(g) ==
    LET centerX == (SnakeCanvasWidth \div THEMED_GRID_SIZE) \div 2
        centerY == (SnakeCanvasHeight \div THEMED_GRID_SIZE) \div 2
    IN  [g EXCEPT !.snake = <<Pos(centerX, centerY), Pos(centerX - 1, centerY), Pos(centerX - 2, centerY)>>,
                  !.direction = Pos(1, 0),
                  !.foods = <<>>]

\* part_006 lines 204-227: generateFood.  The loop draws cells until one is
\* free or a hundred were drawn, so any cell that can be drawn can be the food.
GenerateFoodOutcomes ==
    { Pos(FloorMul(r1, GridMaxX), FloorMul(r2, GridMaxY)) : r1 \in Entropy, r2 \in Entropy }

\* part_006 lines 236-239: the new head
ThemedNewHead(g) == Pos(g.snake[1].x + g.direction.x, g.snake[1].y + g.direction.y)

\* A faulty variant: the wrapped head is left where it went out.
ThemedWrap_NoWrap(head) == head

\* part_006 lines 246-250: the four wrapping assignments, in their order.
ThemedWrap(head) ==
    LET h1 == IF head.x < 0 THEN [head EXCEPT !.x = GridMaxX - 1] ELSE head
        h2 == IF h1.x >= GridMaxX THEN [h1 EXCEPT !.x = 0] ELSE h1
        h3 == IF h2.y < 0 THEN [h2 EXCEPT !.y = GridMaxY - 1] ELSE h2
    IN  IF h3.y >= GridMaxY THEN [h3 EXCEPT !.y = 0] ELSE h3

\* A faulty variant: the right and bottom edges are one cell too far.
ThemedHitsWall_Inclusive(head) ==
    head.x < 0 \/ head.x > GridMaxX \/ head.y < 0 \/ head.y > GridMaxY

\* part_006 line 253: the solid-wall test
ThemedHitsWall(head) ==
    head.x < 0 \/ head.x >= GridMaxX \/ head.y < 0 \/ head.y >= GridMaxY

\* part_006 lines 559-564: gameOver
ThemedGameOver(g) == [g EXCEPT !.gameRunning = FALSE, !.gameLoop = FALSE]

\* part_006 lines 229-312: update(); food is the cell generateFood chooses when
\* the head eats.
ThemedUpdate(g, food) ==
    IF ~g.gameRunning THEN g
    ELSE LET moved == ThemedNewHead(g)
             head == IF g.wallBehavior = "wrap" THEN ThemedWrap(moved) ELSE moved
         IN  IF g.wallBehavior # "wrap" /\ ThemedHitsWall(head) THEN ThemedGameOver(g)
             ELSE IF OnAny(head, g.snake) THEN ThemedGameOver(g)
             ELSE LET grown == <<head>> \o g.snake
                      foodEaten == OnAny(head, g.foods)
                      foods1 == IF foodEaten THEN <<>> ELSE g.foods
                      popped == IF foodEaten THEN grown ELSE SubSeq(grown, 1, Len(grown) - 1)
                      capped == IF Len(popped) > g.maxLength
                                THEN SubSeq(popped, 1, Len(popped) - 1) ELSE popped
                  IN  [g EXCEPT !.snake = capped,
                                !.foods = IF foods1 = <<>> THEN <<food>> ELSE foods1]

OnlyThemedSnake ==
    UNCHANGED <<variationVars, fetches, scheduler, halted, flappy, SNAKE_COLOR, FOOD_COLOR,
                breakoutVars, launcherVars>>

\* part_006 lines 83-91: new SnakeGame(canvas, variation)
InitThemedSnake ==
    /\ SNAKE_COLOR = "green" /\ FOOD_COLOR = "red"
    /\ \E wallBehavior \in {"wrap", "solid"}, food \in GenerateFoodOutcomes :
            snake = [ThemedInitGame([snake |-> <<>>, direction |-> Pos(1, 0), foods |-> <<>>,
                                     gameRunning |-> FALSE, gameLoop |-> FALSE,
                                     wallBehavior |-> wallBehavior,
                                     maxLength |-> SnakeMaxLength])
                     EXCEPT !.foods = <<food>>]

\* part_006 lines 606-610: start()
ThemedSnakeStart ==
    /\ ~snake.gameRunning
    /\ snake' = [snake EXCEPT !.gameRunning = TRUE, !.gameLoop = TRUE]
    /\ lastOp' = Other
    /\ OnlyThemedSnake

\* part_006 lines 635-645: restart()
ThemedSnakeRestart ==
    \E food \in GenerateFoodOutcomes :
        /\ snake' = [ThemedInitGame(snake) EXCEPT !.foods = <<food>>,
                                                  !.gameRunning = TRUE, !.gameLoop = TRUE]
        /\ lastOp' = Other
        /\ OnlyThemedSnake

\* part_006 lines 177-200: the direction the keydown listener leaves for a
\* key, from the current direction and the invertedControls modifier.
ThemedKeydownDirection(direction, key, isInverted) ==
    LET newDirection ==
            IF key = "ArrowUp" /\ direction.y = 0 THEN Pos(0, -1)
            ELSE IF key = "ArrowDown" /\ direction.y = 0 THEN Pos(0, 1)
            ELSE IF key = "ArrowLeft" /\ direction.x = 0 THEN Pos(-1, 0)
            ELSE IF key = "ArrowRight" /\ direction.x = 0 THEN Pos(1, 0)
            ELSE direction
    IN  IF isInverted THEN Pos(newDirection.x * (-1), newDirection.y * (-1)) ELSE newDirection

\* part_006 lines 174-201: the keydown listener, without invertedControls
ThemedSnakeKeydown ==
    \E key \in {"ArrowUp", "ArrowDown", "ArrowLeft", "ArrowRight"} :
        /\ snake.gameRunning
        /\ snake' = [snake EXCEPT !.direction = ThemedKeydownDirection(snake.direction, key, FALSE)]
        /\ lastOp' = Other
        /\ OnlyThemedSnake

\* part_006 lines 612-633: a frame of animate() whose deltaTime reached
\* gameSpeed; it requests the next frame even when update() ended the game.
ThemedSnakeAnimate ==
    \E food \in GenerateFoodOutcomes :
        /\ snake.gameLoop /\ snake.gameRunning
        /\ snake' = [ThemedUpdate(snake, food) EXCEPT !.gameLoop = TRUE]
        /\ lastOp' = Op("tick")
        /\ OnlyThemedSnake

\* The frame requested after the game ended: animate() returns at once.
ThemedSnakeIdleFrame ==
    /\ snake.gameLoop /\ ~snake.gameRunning
    /\ snake' = [snake EXCEPT !.gameLoop = FALSE]
    /\ lastOp' = Other
    /\ OnlyThemedSnake

NextThemedSnake ==
    \/ ThemedSnakeStart
    \/ ThemedSnakeRestart
    \/ ThemedSnakeKeydown
    \/ ThemedSnakeAnimate
    \/ ThemedSnakeIdleFrame


(***************************************************************************)
(* Flappy physics: one update() of each of the three Flappy classes, on    *)
(* the bird's position and speed (hundredths of a pixel) and on obstacles  *)
(* with their x (pixels) and top pipe height (hundredths).  Every          *)
(* obstacle carries the number under which it was generated, so that it    *)
(* can be followed from one state to the next.                             *)
(***************************************************************************)
MaxFrames == 3
CANVAS_WIDTH == 400
BIRD_X_POSITION == 100
PIPE_WIDTH == 80
PIPE_SPAWN_INTERVAL == 2000
PIPE_SPEED == 2
FRAME_MS == 16
MIN_PIPE_HEIGHT == 40

Obstacle(id, x, top, passed) == [id |-> id, x |-> x, top |-> top, passed |-> passed]

\* games/flappy/index.ts lines 254-268: generateObstacle with rng() = r
LegacyGenerateObstacle(f, r) ==
    LET maxTopPipeHeight == CANVAS_HEIGHT - DEFAULT_PIPE_GAP - MIN_PIPE_HEIGHT
        actualMax == IF maxTopPipeHeight > MIN_PIPE_HEIGHT THEN maxTopPipeHeight ELSE MIN_PIPE_HEIGHT
        topPipeHeight == (r * (actualMax - MIN_PIPE_HEIGHT) * 100) \div RngDen + MIN_PIPE_HEIGHT * 100
    IN  [f EXCEPT !.obstacles = Append(@, Obstacle(f.spawned + 1, CANVAS_WIDTH, topPipeHeight, FALSE)),
                  !.spawned = @ + 1, !.since = 0]

\* A faulty variant: the flag of a passed obstacle is not set.
LegacyPass_NoFlag(f, i) == [f EXCEPT !.score = @ + 1]

\* games/flappy/index.ts lines 322-325: obstacle i is passed
LegacyPass(f, i) == [f EXCEPT !.obstacles[i].passed = TRUE, !.score = @ + 1]

\* games/flappy/index.ts lines 305-320: the bird against a pipe pair at x
LegacyCollides(f, x, top) ==
    LET birdLeft == BIRD_X_POSITION - BIRD_RADIUS
        birdRight == BIRD_X_POSITION + BIRD_RADIUS
        birdTop == f.birdY - BIRD_RADIUS * 100
        birdBottom == f.birdY + BIRD_RADIUS * 100
        pipeRight == x + PIPE_WIDTH
        pipeTopY == top
        pipeBottomY == top + DEFAULT_PIPE_GAP * 100
    IN  /\ birdRight > x /\ birdLeft < pipeRight
        /\ (birdTop < pipeTopY \/ birdBottom > pipeBottomY)

\* games/flappy/index.ts lines 295-326: the loop over the obstacles, from the
\* last one down; a collision returns at once and leaves the obstacles before
\* it as they were.
RECURSIVE LegacyObstacleLoop(_, _)
LegacyObstacleLoop(i, f) ==
    IF i < 1 THEN f
    ELSE LET x == f.obstacles[i].x - PIPE_SPEED
             obs == f.obstacles[i]
             moved == [f EXCEPT !.obstacles[i].x = x]
         IN  IF x + PIPE_WIDTH < 0
             THEN LegacyObstacleLoop(i - 1, [f EXCEPT !.obstacles = RemoveAt(@, i)])
             ELSE IF LegacyCollides(f, x, obs.top)
             THEN [moved EXCEPT !.isGameOver = TRUE]
             ELSE IF ~obs.passed /\ BIRD_X_POSITION > x + PIPE_WIDTH
             THEN LegacyObstacleLoop(i - 1, LegacyPass(moved, i))
             ELSE LegacyObstacleLoop(i - 1, moved)

\* games/flappy/index.ts lines 270-327: FlappyGame.update(16)
LegacyUpdate(f) ==
    LET v1 == f.birdVelocity + DEFAULT_GRAVITY
        y1 == f.birdY + v1
        atTop == y1 - BIRD_RADIUS * 100 < 0
        y2 == IF atTop THEN BIRD_RADIUS * 100 ELSE y1
        v2 == IF atTop THEN 0 ELSE v1
        bird == [f EXCEPT !.birdY = y2, !.birdVelocity = v2, !.since = @ + FRAME_MS]
    IN  IF y2 + BIRD_RADIUS * 100 > CANVAS_HEIGHT * 100
        THEN [bird EXCEPT !.birdY = (CANVAS_HEIGHT - BIRD_RADIUS) * 100, !.birdVelocity = 0,
                          !.isGameOver = TRUE]
        ELSE LET spawned == IF bird.since > PIPE_SPAWN_INTERVAL
                            THEN LegacyGenerateObstacle(bird, RngPoint(1)) ELSE bird
             IN  LegacyObstacleLoop(Len(spawned.obstacles), spawned)

GAME_CANVAS_WIDTH == 300
GAME_CANVAS_HEIGHT == 400
GAME_BIRD_X == 50
GAME_BIRD_SIZE == 20
GAME_GRAVITY == 20
GAME_FLAP_STRENGTH == 5
GAME_OBSTACLE_WIDTH == 50
GAME_OBSTACLE_INTERVAL == 180

\* src/games/flappy/index.ts lines 149-186: Game.checkCollisions
GameCollides(f) ==
    \/ f.birdY + GAME_BIRD_SIZE * 100 >= GAME_CANVAS_HEIGHT * 100
    \/ \E i \in DOMAIN f.obstacles :
        LET obstacle == f.obstacles[i]
            birdLeft == GAME_BIRD_X
            birdRight == GAME_BIRD_X + GAME_BIRD_SIZE
            birdTop == f.birdY
            birdBottom == f.birdY + GAME_BIRD_SIZE * 100
            obsLeft == obstacle.x
            obsRight == obstacle.x + GAME_OBSTACLE_WIDTH
            bottomPipeTop == obstacle.top + DEFAULT_PIPE_GAP * 100
        IN  \/ birdRight > obsLeft /\ birdLeft < obsRight /\ birdTop < obstacle.top /\ birdBottom > 0
            \/ /\ birdRight > obsLeft /\ birdLeft < obsRight
               /\ birdTop < GAME_CANVAS_HEIGHT * 100 /\ birdBottom > bottomPipeTop

\* src/games/flappy/index.ts lines 188-196: Game.updateScore, obstacle by obstacle
GameUpdateScore(f) ==
    LET newly == {i \in DOMAIN f.obstacles :
                    ~f.obstacles[i].passed /\ GAME_BIRD_X > f.obstacles[i].x + GAME_OBSTACLE_WIDTH}
    IN  [f EXCEPT !.score = @ + Cardinality(newly),
                  !.obstacles = [i \in DOMAIN @ |-> [@[i] EXCEPT !.passed = @ \/ i \in newly]]]

\* src/games/flappy/index.ts lines 198-234: Game.update
GameUpdate(f) ==
    LET v1 == f.birdVelocity + GAME_GRAVITY
        y1 == f.birdY + v1
        bird == IF y1 < 0 THEN [f EXCEPT !.birdY = 0, !.birdVelocity = 0]
                ELSE [f EXCEPT !.birdY = y1, !.birdVelocity = v1]
    IN  IF GameCollides(bird) THEN [bird EXCEPT !.isGameOver = TRUE]
        ELSE LET due == bird.since + 1 >= GAME_OBSTACLE_INTERVAL
                 top == (RngPoint(1) * (GAME_CANVAS_HEIGHT - DEFAULT_PIPE_GAP - 2 * MIN_PIPE_HEIGHT) * 100)
                            \div RngDen + MIN_PIPE_HEIGHT * 100
                 spawned == IF due
                            THEN [bird EXCEPT !.obstacles = Append(@, Obstacle(bird.spawned + 1,
                                                                    GAME_CANVAS_WIDTH, top, FALSE)),
                                              !.spawned = @ + 1, !.since = 0]
                            ELSE [bird EXCEPT !.since = @ + 1]
                 Shifted(o) == [o EXCEPT !.x = @ - PIPE_SPEED]
                 OnScreen(o) == ~(o.x + GAME_OBSTACLE_WIDTH < 0)
                 movedObstacles == SelectSeq([i \in DOMAIN spawned.obstacles |-> Shifted(spawned.obstacles[i])],
                                        OnScreen)
             IN  GameUpdateScore([spawned EXCEPT !.obstacles = movedObstacles])

THEMED_CANVAS_WIDTH == 800
THEMED_CANVAS_HEIGHT == 600
THEMED_BIRD_SIZE == 20
THEMED_GRAVITY == 100
THEMED_JUMP_FORCE == -1500
THEMED_PIPE_SPEED == 4
THEMED_PIPE_WIDTH == 60
THEMED_PIPE_SPACING == 300

\* src/games/flappy.ts lines 327-346: the themed checkCollisions, bird top at y
ThemedHit(y, pipes) ==
    \E i \in DOMAIN pipes :
        /\ BIRD_X_POSITION + THEMED_BIRD_SIZE > pipes[i].x
        /\ BIRD_X_POSITION < pipes[i].x + THEMED_PIPE_WIDTH
        /\ \/ y < pipes[i].top
           \/ y + THEMED_BIRD_SIZE * 100 > pipes[i].top + DEFAULT_PIPE_GAP * 100

\* src/games/flappy.ts lines 191-208: the themed FlappyGame.update, with no
\* modifier, no power-up and speedMultiplier 1
ThemedFlappyUpdate(f) ==
    LET v1 == f.birdVelocity + THEMED_GRAVITY
        y1 == f.birdY + v1
        Shifted(o) == LET x == o.x - THEMED_PIPE_SPEED
                      IN  [o EXCEPT !.x = x,
                                    !.passed = @ \/ x + THEMED_PIPE_WIDTH < BIRD_X_POSITION]
        OnScreen(o) == o.x + THEMED_PIPE_WIDTH > -50
        shifted == [i \in DOMAIN f.obstacles |-> Shifted(f.obstacles[i])]
        gained == Cardinality({i \in DOMAIN shifted : shifted[i].passed /\ ~f.obstacles[i].passed})
        pipes == SelectSeq(shifted, OnScreen)
        hit == ThemedHit(y1, pipes)
        due == (f.since + FRAME_MS) * THEMED_PIPE_SPEED * 100 > THEMED_PIPE_SPACING * 1667
        top == (RngPoint(1) * (THEMED_CANVAS_HEIGHT - DEFAULT_PIPE_GAP - 100) * 100) \div RngDen + 5000
        out == y1 > THEMED_CANVAS_HEIGHT * 100 \/ y1 < 0
    IN  [f EXCEPT !.birdY = y1, !.birdVelocity = v1, !.score = @ + gained,
                  !.obstacles = IF due
                                THEN Append(pipes, Obstacle(f.spawned + 1, THEMED_CANVAS_WIDTH, top, FALSE))
                                ELSE pipes,
                  !.spawned = IF due THEN @ + 1 ELSE @,
                  !.since = IF due THEN 0 ELSE @ + FRAME_MS,
                  !.isGameOver = hit \/ out]

\* Where a bird may be in the middle of a game, near and at the edges.
BirdSamples ==
    [class : {"FlappyGame"}, birdY : {2050, 30000, 57750, 57751}, birdVelocity : {-150, 0, 200}]
    \cup [class : {"Game"}, birdY : {50, 20000, 37899, 37900}, birdVelocity : {-120, 0, 80}]
    \cup [class : {"themed"}, birdY : {50, 30000, 59900}, birdVelocity : {-200, 0, 100}]

ObstacleXs(class) ==
    IF class = "FlappyGame" THEN {122, 121, 60, 3, 2, 21, -79}
    ELSE IF class = "Game" THEN {70, 69, 30, 1, 0, 2, -49}
    ELSE {124, 123, 80, 44, 45, 41, -108}

ObstacleTops(class) ==
    IF class = "FlappyGame" THEN {27900, 27901, 17250, 17249, 20000}
    ELSE IF class = "Game" THEN {19900, 19901, 7100, 7099, 15000}
    ELSE {29900, 29901, 17200, 17199, 20000}

\* An obstacle at x was passed in an earlier update exactly when the bird's x
\* is beyond its right edge.
WasPassed(class, x) ==
    IF class = "FlappyGame" THEN BIRD_X_POSITION > x + PIPE_WIDTH
    ELSE IF class = "Game" THEN GAME_BIRD_X > x + GAME_OBSTACLE_WIDTH
    ELSE x + THEMED_PIPE_WIDTH < BIRD_X_POSITION

ObstacleSamples(class) ==
    {<<>>}
    \cup {<<Obstacle(1, x, top, WasPassed(class, x))>> : x \in ObstacleXs(class), top \in ObstacleTops(class)}
    \cup {<<Obstacle(1, 21, 20000, WasPassed(class, 21)), Obstacle(2, 60, 27901, FALSE)>>}

SinceSamples(class) ==
    IF class = "FlappyGame" THEN {0, PIPE_SPAWN_INTERVAL - 10}
    ELSE IF class = "Game" THEN {0, GAME_OBSTACLE_INTERVAL - 1}
    ELSE {0, 1240}

\* The last update() of the game found no collision: the game is not over.
NoCollisionYet(f) ==
    IF f.class = "FlappyGame"
    THEN /\ f.birdY - BIRD_RADIUS * 100 >= 0
         /\ f.birdY + BIRD_RADIUS * 100 <= CANVAS_HEIGHT * 100
         /\ \A i \in DOMAIN f.obstacles : ~LegacyCollides(f, f.obstacles[i].x, f.obstacles[i].top)
    ELSE IF f.class = "Game"
    THEN /\ f.birdY >= 0
         /\ ~GameCollides([f EXCEPT !.obstacles =
                                [i \in DOMAIN @ |-> [@[i] EXCEPT !.x = @ + PIPE_SPEED]]])
    ELSE /\ f.birdY >= 0 /\ f.birdY <= THEMED_CANVAS_HEIGHT * 100
         /\ ~ThemedHit(f.birdY, f.obstacles)

OnlyPhysics == UNCHANGED <<variationVars, fetches, scheduler, halted, snakeVars, breakoutVars, launcherVars>>

\* A game of one of the three classes, some frames into a run.
InitPhysics ==
    \E b \in BirdSamples :
        \E obstacles \in ObstacleSamples(b.class), since \in SinceSamples(b.class) :
            /\ flappy = [class |-> b.class, birdY |-> b.birdY, birdVelocity |-> b.birdVelocity,
                         obstacles |-> obstacles, spawned |-> Len(obstacles),
                         score |-> Cardinality({i \in DOMAIN obstacles : obstacles[i].passed}),
                         isGameOver |-> FALSE, since |-> since, frames |-> 0]
            /\ NoCollisionYet(flappy)

\* What the themed FlappyGame's render() finds in gameRunning: update() calls
\* it on line 199, after checkCollisions (which calls gameOver() on a pipe)
\* and before the test of the canvas's edges on lines 202-207.
ThemedRenderSeesOver(f) ==
    LET y1 == f.birdY + f.birdVelocity + THEMED_GRAVITY
        Shifted(o) == [o EXCEPT !.x = @ - THEMED_PIPE_SPEED]
        OnScreen(o) == o.x + THEMED_PIPE_WIDTH > -50
        pipes == SelectSeq([i \in DOMAIN f.obstacles |-> Shifted(f.obstacles[i])], OnScreen)
    IN  ThemedHit(y1, pipes)

\* Whether the frame drawn for an update() of a game in play shows the game
\* as over.  FlappyGame.gameLoop and Game.gameLoop call draw() after update()
\* has returned (games/flappy/index.ts 400-401, src/games/flappy/index.ts
\* 268-269); the themed game draws from inside update().
DrawnOver(f) ==
    IF f.class = "FlappyGame" THEN LegacyUpdate(f).isGameOver
    ELSE IF f.class = "Game" THEN GameUpdate(f).isGameOver
    ELSE ThemedRenderSeesOver(f)

\* An update() that went on although the game was over.
UpdateReturnsEarly_Never(f) == FALSE

\* The first statement of update(): if (this.gameOver) return
\* (games/flappy/index.ts 271, src/games/flappy/index.ts 199-201,
\* src/games/flappy.ts 192).
UpdateReturnsEarly(f) == f.isGameOver

\* One frame: update() of the game's class.  Game.gameLoop calls it on every
\* animation frame, whether or not the game is over
\* (src/games/flappy/index.ts 267-273).
PhysicsTick ==
    /\ flappy.frames < MaxFrames
    /\ flappy' = IF UpdateReturnsEarly(flappy) THEN flappy
                 ELSE [(IF flappy.class = "FlappyGame" THEN LegacyUpdate(flappy)
                        ELSE IF flappy.class = "Game" THEN GameUpdate(flappy)
                        ELSE ThemedFlappyUpdate(flappy))
                       EXCEPT !.frames = @ + 1]
    /\ lastOp' = [op |-> "tick", wasOver |-> flappy.isGameOver,
                  drawnOver |-> IF flappy.isGameOver THEN flappy.isGameOver
                                ELSE DrawnOver(flappy)]
    /\ OnlyPhysics

\* flap() / jump(): games/flappy/index.ts 225-230, src/games/flappy/index.ts
\* 116-119, src/games/flappy.ts 149-157
PhysicsFlap ==
    /\ ~flappy.isGameOver
    /\ flappy' = [flappy EXCEPT !.birdVelocity =
                        IF flappy.class = "FlappyGame" THEN BIRD_FLAP_STRENGTH * 100
                        ELSE IF flappy.class = "Game" THEN -(GAME_FLAP_STRENGTH * 100)
                        ELSE THEMED_JUMP_FORCE]
    /\ lastOp' = Other
    /\ OnlyPhysics

NextPhysics ==
    \/ PhysicsTick
    \/ PhysicsFlap


\* ---------------------------------------------------------------------------
\* Breakout: the ball, the paddle and the bricks, frame by frame.
\* Two classes are played: the legacy BreakoutGame (src/games/flappy.ts
\* 508-870, canvas 400 x 400) and the themed BreakoutGame (part_006 1037-1575,
\* canvas 800 x 600).  Lengths and speeds are in hundredths of a pixel.
\* ---------------------------------------------------------------------------

\* Frames played in one run.
MaxTicks == 225

\* Largest whole part of difficulty.complexityBonus given to the themed game.
MaxComplexity == 1

BREAKOUT_CANVAS_HEIGHT == 40000
PADDLE_HEIGHT == 1000
PADDLE_Y_OFFSET == 3000
BALL_RADIUS == 800
BRICK_WIDTH == 5000
BRICK_HEIGHT == 1500
BRICK_PADDING == 500
BRICK_OFFSET_TOP == 3000
BRICK_OFFSET_LEFT == 3000
LEGACY_BALL_SPEED == 2
LEGACY_DEFLECTION == 15

THEMED_BASE_PADDLE_SIZE == 10000
THEMED_PADDLE_HEIGHT == 1200
THEMED_PADDLE_FROM_BOTTOM == 3000
THEMED_BASE_SPEED == 600
THEMED_BALL_HALF == 500
THEMED_BRICK_ROWS == 6
THEMED_BRICK_COLS == 10
THEMED_BRICK_HEIGHT == 2500
THEMED_BRICK_TOP == 5000
THEMED_BRICK_MARGIN == 1000
THEMED_BRICK_GAP == 200
THEMED_LIVES == 3

Abs(n) == IF n < 0 THEN -n ELSE n

\* n / d for d > 0, kept to the unit and rounded away from zero, so that a
\* speed has the sign of the exact quotient and is zero only when that is.
Quotient(n, d) == IF n >= 0 THEN (n + d - 1) \div d ELSE -((d - 1 - n) \div d)

Ball(x, y, dx, dy, speed) == [x |-> x, y |-> y, dx |-> dx, dy |-> dy, speed |-> speed]

\* Legacy initializeBricks (lines 643-651) with the positions drawBricks
\* assigns (lines 780-786); hits is the brick's status.  The first update runs
\* before the first draw, with the ball far from the origin the bricks have
\* until then.
LegacyBricks ==
    [i \in 1..(BRICK_COLUMN_COUNT * BRICK_ROW_COUNT) |->
        LET c == (i - 1) \div BRICK_ROW_COUNT
            r == (i - 1) % BRICK_ROW_COUNT
        IN  [x |-> c * (BRICK_WIDTH + BRICK_PADDING) + BRICK_OFFSET_LEFT,
             y |-> r * (BRICK_HEIGHT + BRICK_PADDING) + BRICK_OFFSET_TOP,
             width |-> BRICK_WIDTH, height |-> BRICK_HEIGHT,
             hits |-> 1, maxHits |-> 1]]

\* Legacy resetGame (lines 653-669) once the variation fetch has settled;
\* sign is the direction drawn from rng.
LegacyBallGame(sign, pw, m) ==
    [class |-> "legacy",
     balls |-> <<Ball(BREAKOUT_CANVAS_WIDTH \div 2,
                      BREAKOUT_CANVAS_HEIGHT - PADDLE_Y_OFFSET - PADDLE_HEIGHT - BALL_RADIUS - 500,
                      LEGACY_BALL_SPEED * m * sign, -LEGACY_BALL_SPEED * m,
                      LEGACY_BALL_SPEED * m)>>,
     paddleX |-> (BREAKOUT_CANVAS_WIDTH - pw) \div 2, paddleWidth |-> pw,
     bricks |-> LegacyBricks, score |-> 0, lives |-> BREAKOUT_LIVES, combo |-> 0,
     doubleScore |-> FALSE, running |-> TRUE, frames |-> 0]

\* Legacy brick test of collisionDetection (lines 700-705).
LegacyBallInBrick(ball, b) ==
    /\ ball.x + BALL_RADIUS > b.x
    /\ ball.x - BALL_RADIUS < b.x + BRICK_WIDTH
    /\ ball.y + BALL_RADIUS > b.y
    /\ ball.y - BALL_RADIUS < b.y + BRICK_HEIGHT

\* Legacy paddle test of collisionDetection (lines 724-727), on the ball's
\* next height ny.
LegacyBallOnPaddle(ball, ny, paddleX, pw) ==
    /\ ny > BREAKOUT_CANVAS_HEIGHT - PADDLE_HEIGHT - PADDLE_Y_OFFSET - BALL_RADIUS
    /\ ny < BREAKOUT_CANVAS_HEIGHT - PADDLE_Y_OFFSET + BALL_RADIUS
    /\ ball.x > paddleX
    /\ ball.x < paddleX + pw

\* Legacy update() and collisionDetection() (lines 694-761).
LegacyBreakoutUpdate(g, sign, m) ==
    LET ball == g.balls[1]
        struck == {i \in DOMAIN g.bricks :
                      g.bricks[i].hits = 1 /\ LegacyBallInBrick(ball, g.bricks[i])}
        dy1 == IF Cardinality(struck) % 2 = 1 THEN -ball.dy ELSE ball.dy
        score1 == g.score + Cardinality(struck)
        won == struck # {} /\ score1 = BRICK_ROW_COUNT * BRICK_COLUMN_COUNT
        bricks1 == [i \in DOMAIN g.bricks |->
                       IF i \in struck THEN [g.bricks[i] EXCEPT !.hits = 0] ELSE g.bricks[i]]
        nx == ball.x + ball.dx
        dx1 == IF nx > BREAKOUT_CANVAS_WIDTH - BALL_RADIUS \/ nx < BALL_RADIUS
               THEN -ball.dx ELSE ball.dx
        ny == ball.y + dy1
        g1 == [g EXCEPT !.bricks = bricks1, !.score = score1, !.running = ~won]
        g2 == IF ny < BALL_RADIUS
              THEN [g1 EXCEPT !.balls = <<[ball EXCEPT !.dx = dx1, !.dy = -dy1]>>]
              ELSE IF ny > BREAKOUT_CANVAS_HEIGHT - BALL_RADIUS
              THEN IF LegacyBallOnPaddle(ball, ny, g.paddleX, g.paddleWidth)
                   THEN LET deltaX == ball.x - (g.paddleX + g.paddleWidth \div 2)
                        IN  [g1 EXCEPT !.balls = <<[ball EXCEPT
                                 !.dy = -dy1,
                                 !.dx = Quotient(deltaX * LEGACY_DEFLECTION, 100)]>>]
                   ELSE IF g.lives - 1 <= 0
                   THEN [g1 EXCEPT !.lives = @ - 1, !.running = FALSE,
                                   !.balls = <<[ball EXCEPT !.dx = dx1, !.dy = dy1]>>]
                   ELSE [g1 EXCEPT !.lives = @ - 1,
                                   !.balls = <<Ball(BREAKOUT_CANVAS_WIDTH \div 2,
                                       BREAKOUT_CANVAS_HEIGHT - PADDLE_Y_OFFSET - PADDLE_HEIGHT
                                           - BALL_RADIUS - 500,
                                       LEGACY_BALL_SPEED * m * sign, -LEGACY_BALL_SPEED * m,
                                       ball.speed)>>,
                                   !.paddleX = (BREAKOUT_CANVAS_WIDTH - g.paddleWidth) \div 2]
              ELSE [g1 EXCEPT !.balls = <<[ball EXCEPT !.dx = dx1, !.dy = dy1]>>]
        moved == g2.balls[1]
    IN  [g2 EXCEPT !.balls = <<[moved EXCEPT !.x = @ + moved.dx, !.y = @ + moved.dy]>>]

\* Themed createBricks (part_006 1121-1148) with hits = floor(complexityBonus) + 1.
ThemedBrickLayout(rows, cols, complexity) ==
    [i \in 1..(rows * cols) |->
        LET row == (i - 1) \div cols
            col == (i - 1) % cols
            brickWidth == (THEMED_CANVAS_WIDTH * 100 - 2 * THEMED_BRICK_MARGIN) \div cols
        IN  [x |-> col * brickWidth + THEMED_BRICK_MARGIN,
             y |-> row * THEMED_BRICK_HEIGHT + THEMED_BRICK_TOP,
             width |-> brickWidth - THEMED_BRICK_GAP,
             height |-> THEMED_BRICK_HEIGHT - THEMED_BRICK_GAP,
             hits |-> complexity + 1, maxHits |-> complexity + 1]]

\* The layout of a variation without gameSpecific.brickRows and brickCols.
ThemedBricks(complexity) ==
    ThemedBrickLayout(THEMED_BRICK_ROWS, THEMED_BRICK_COLS, complexity)

\* The layout of a variation with gameSpecific.brickRows = brickCols = 1.
ThemedOneBrick == ThemedBrickLayout(1, 1, 0)

\* Themed constructor and setupGame (part_006 1060-1114) for a variation with
\* speedMultiplier 1 and paddleSize 1; sign is the direction Math.random draws.
ThemedBallGame(sign, complexity, doubleScore) ==
    [class |-> "themed",
     balls |-> <<Ball((THEMED_CANVAS_WIDTH * 100) \div 2, (THEMED_CANVAS_HEIGHT * 100) \div 2,
                      THEMED_BASE_SPEED * sign, -THEMED_BASE_SPEED, THEMED_BASE_SPEED)>>,
     paddleX |-> (THEMED_CANVAS_WIDTH * 100) \div 2 - THEMED_BASE_PADDLE_SIZE \div 2,
     paddleWidth |-> THEMED_BASE_PADDLE_SIZE,
     bricks |-> ThemedBricks(complexity), score |-> 0, lives |-> THEMED_LIVES, combo |-> 0,
     doubleScore |-> doubleScore, running |-> TRUE, frames |-> 0]

\* Themed updateBalls (part_006 1236-1259).  resetBall's new ball is replaced
\* by the result of the filter, which has dropped the lost ball.
ThemedUpdateBalls(g) ==
    IF g.balls = <<>> THEN g
    ELSE LET ball == g.balls[1]
             x == ball.x + ball.dx
             y == ball.y + ball.dy
             dx == IF x <= 0 \/ x >= THEMED_CANVAS_WIDTH * 100 THEN -ball.dx ELSE ball.dx
             dy == IF y <= 0 THEN -ball.dy ELSE ball.dy
         IN  IF y >= THEMED_CANVAS_HEIGHT * 100
             THEN [g EXCEPT !.lives = @ - 1, !.balls = <<>>]
             ELSE [g EXCEPT !.balls = <<[ball EXCEPT !.x = x, !.y = y, !.dx = dx, !.dy = dy]>>]

\* Themed paddle test of checkCollisions (part_006 1308-1311).
ThemedBallOnPaddle(ball, paddleX, paddleWidth) ==
    /\ ball.y + THEMED_BALL_HALF >= THEMED_CANVAS_HEIGHT * 100 - THEMED_PADDLE_FROM_BOTTOM
    /\ ball.y - THEMED_BALL_HALF <=
           THEMED_CANVAS_HEIGHT * 100 - THEMED_PADDLE_FROM_BOTTOM + THEMED_PADDLE_HEIGHT
    /\ ball.x >= paddleX
    /\ ball.x <= paddleX + paddleWidth

\* Themed paddle bounce (part_006 1313-1316):
\* dx = speed * (hitPos - 0.5) * 2 with hitPos = (x - paddle.x) / paddle.width.
ThemedPaddleBounce(ball, paddleX, paddleWidth) ==
    [ball EXCEPT !.dy = -Abs(ball.dy),
                 !.dx = Quotient(2 * ball.speed * (ball.x - paddleX) - ball.speed * paddleWidth,
                                 paddleWidth)]

\* Themed brick test of checkCollisions (part_006 1321-1322).
ThemedBallInBrick(ball, b) ==
    /\ ball.x >= b.x /\ ball.x <= b.x + b.width
    /\ ball.y >= b.y /\ ball.y <= b.y + b.height

\* A struck brick that stayed in the list until its hits fell below zero.
ThemedBrickStays_Late(hitsLeft) == hitsLeft >= 0

\* Whether a struck brick stays in the list: it is dropped when brick.hits <= 0
\* (part_006 1336-1348).
ThemedBrickStays(hitsLeft) == ~(hitsLeft <= 0)

\* Themed bricks.filter of checkCollisions (part_006 1320-1357), brick i
\* onwards: st carries the ball, the bricks kept so far, combo and score.
RECURSIVE ThemedBrickLoop(_, _, _)
ThemedBrickLoop(i, bricks, st) ==
    IF i > Len(bricks) THEN st
    ELSE LET b == bricks[i] IN
         IF ThemedBallInBrick(st.ball, b)
         THEN LET hits == b.hits - 1
                  combo == st.combo + 1
                  points == (b.maxHits - hits + 1) * 10 * combo
              IN  ThemedBrickLoop(i + 1, bricks,
                      [ball |-> [st.ball EXCEPT !.dy = -st.ball.dy],
                       kept |-> IF ThemedBrickStays(hits)
                                THEN Append(st.kept, [b EXCEPT !.hits = hits])
                                ELSE st.kept,
                       combo |-> combo,
                       score |-> st.score + (IF st.doubleScore THEN points * 2 ELSE points),
                       doubleScore |-> st.doubleScore])
         ELSE ThemedBrickLoop(i + 1, bricks, [st EXCEPT !.kept = Append(st.kept, b)])

\* Themed checkCollisions (part_006 1305-1358).
ThemedCheckCollisions(g) ==
    IF g.balls = <<>> THEN g
    ELSE LET ball == g.balls[1]
             bounced == IF ThemedBallOnPaddle(ball, g.paddleX, g.paddleWidth)
                        THEN ThemedPaddleBounce(ball, g.paddleX, g.paddleWidth)
                        ELSE ball
             st == ThemedBrickLoop(1, g.bricks,
                       [ball |-> bounced, kept |-> <<>>, combo |-> g.combo,
                        score |-> g.score, doubleScore |-> g.doubleScore])
         IN  [g EXCEPT !.balls = <<st.ball>>, !.bricks = st.kept,
                       !.combo = st.combo, !.score = st.score]

\* update() without its win and lose tests.
ThemedBreakoutUpdate_NoEnd(g) == ThemedCheckCollisions(ThemedUpdateBalls(g))

\* Themed update() (part_006 1206-1233) with no key held and no power-up
\* falling: updateBalls, checkCollisions, then the win and lose tests.
ThemedBreakoutUpdate(g) ==
    LET g1 == ThemedCheckCollisions(ThemedUpdateBalls(g))
    IN  IF g1.bricks = <<>> THEN [g1 EXCEPT !.running = FALSE]
        ELSE IF g1.balls = <<>> /\ g1.lives <= 0 THEN [g1 EXCEPT !.running = FALSE]
        ELSE g1

\* Where the player puts the mouse, relative to the canvas.
LegacyMouseX == {14600, 25400}
ThemedMouseX == {73000, 75500}

\* Legacy mousemove listener (lines 633-641).
LegacyMouseMove(g, relativeX) ==
    IF relativeX > 0 /\ relativeX < BREAKOUT_CANVAS_WIDTH
    THEN LET wanted == relativeX - g.paddleWidth \div 2
             low == IF wanted > 0 THEN wanted ELSE 0
             high == BREAKOUT_CANVAS_WIDTH - g.paddleWidth
         IN  [g EXCEPT !.paddleX = IF low < high THEN low ELSE high]
    ELSE g

\* Themed mousemove listener (part_006 1168-1178).
ThemedMouseMove(g, mouseX) ==
    LET x == mouseX - g.paddleWidth \div 2
        x1 == IF x < 0 THEN 0 ELSE x
    IN  [g EXCEPT !.paddleX = IF x1 + g.paddleWidth > THEMED_CANVAS_WIDTH * 100
                               THEN THEMED_CANVAS_WIDTH * 100 - g.paddleWidth ELSE x1]

\* Only the Breakout instance changes.
OnlyBall == UNCHANGED <<variationVars, fetches, scheduler, halted, flappy, snakeVars,
                        PADDLE_WIDTH, BALL_SPEED_MULTIPLIER, launcherVars>>

\* A game of either class as its first frame begins.
InitBall ==
    /\ PADDLE_WIDTH = DEFAULT_PADDLE_WIDTH
    /\ BALL_SPEED_MULTIPLIER = DEFAULT_BALL_SPEED_MULTIPLIER
    /\ \E sign \in {-1, 1} :
          \/ breakout = LegacyBallGame(sign, PADDLE_WIDTH, BALL_SPEED_MULTIPLIER)
          \/ \E complexity \in 0..MaxComplexity, doubleScore \in BOOLEAN :
                breakout = ThemedBallGame(sign, complexity, doubleScore)
          \/ breakout = [ThemedBallGame(sign, 0, FALSE) EXCEPT !.bricks = ThemedOneBrick]

\* Frames of one run of the legacy game, whose ball needs some 240 frames
\* to be lost below the paddle.
MaxLegacyTicks == 730

\* One animation frame: update() of the game's class.
BallTick ==
    /\ breakout.running
    /\ breakout.frames < (IF breakout.class = "legacy" THEN MaxLegacyTicks ELSE MaxTicks)
    /\ IF breakout.class = "legacy"
       THEN \E sign \in {-1, 1} :
                breakout' = [LegacyBreakoutUpdate(breakout, sign, BALL_SPEED_MULTIPLIER)
                             EXCEPT !.frames = @ + 1]
       ELSE breakout' = [ThemedBreakoutUpdate(breakout) EXCEPT !.frames = @ + 1]
    /\ lastOp' = [op |-> "tick"]
    /\ OnlyBall

\* The player moves the mouse over the canvas.
BallMouseMove ==
    /\ breakout.running
    /\ \/ /\ breakout.class = "legacy"
          /\ \E relativeX \in LegacyMouseX : breakout' = LegacyMouseMove(breakout, relativeX)
       \/ /\ breakout.class = "themed"
          /\ \E mouseX \in ThemedMouseX : breakout' = ThemedMouseMove(breakout, mouseX)
    /\ lastOp' = [op |-> "other"]
    /\ OnlyBall

NextBall ==
    \/ BallTick
    \/ BallMouseMove

\* ---------------------------------------------------------------------------
\* Flappy: the obstacles of successive epochs.  The legacy FlappyGame draws
\* them from the generator that fetchVariationAndInitialize seeds
\* (games/flappy/index.ts 155, 259); the themed FlappyGame draws them from
\* Math.random() (src/games/flappy.ts 299).  An epoch is recorded as the seed
\* of its bundle and the top-pipe heights generated in it.
\* ---------------------------------------------------------------------------

\* Epochs played in one run.
MaxEpochs == 2

THEMED_MIN_PIPE_HEIGHT == 50

\* The seeds a bundle may carry.
EpochSeeds == {<<"a">>, <<"b">>}

\* The top-pipe height generateObstacle gives for rng() = r.
LegacyTopPipeHeight(r) ==
    LegacyGenerateObstacle([obstacles |-> <<>>, spawned |-> 0, since |-> 0], r).obstacles[1].top

\* The topHeight createPipe gives for Math.random() = r (src/games/flappy.ts
\* 296-299).
ThemedTopHeight(r) ==
    LET maxHeight == THEMED_CANVAS_HEIGHT - DEFAULT_PIPE_GAP - THEMED_MIN_PIPE_HEIGHT
    IN  (r * (maxHeight - THEMED_MIN_PIPE_HEIGHT) * 100) \div RngDen
            + THEMED_MIN_PIPE_HEIGHT * 100

OnlyEpochs == UNCHANGED <<variationVars, fetches, scheduler, halted, snakeVars, breakoutVars,
                          launcherVars>>

\* A game of either class before its first bundle.
InitEpochs ==
    \E class \in {"FlappyGame", "themed"} :
        flappy = [class |-> class, draws |-> 0, epochs |-> <<>>]

\* A bundle with a seed is applied and an epoch begins: the legacy game seeds
\* its generator anew and resetGame empties the obstacles
\* (games/flappy/index.ts 143-157); the themed game is constructed or
\* restarted with the bundle and never reads its seed.
EpochBegin ==
    \E seed \in EpochSeeds :
        /\ Len(flappy.epochs) < MaxEpochs
        /\ flappy' = [flappy EXCEPT !.draws = 0,
                                    !.epochs = Append(@, [seed |-> seed, tops |-> <<>>])]
        /\ lastOp' = [op |-> "other"]
        /\ OnlyEpochs

\* generateObstacle() / createPipe() in the current epoch.
EpochGenerateObstacle ==
    /\ flappy.epochs # <<>>
    /\ LET n == Len(flappy.epochs)
           epoch == flappy.epochs[n]
       IN  /\ Len(epoch.tops) < MaxObstacles
           /\ \E r \in RngOutcomes :
                 /\ flappy.class = "FlappyGame" => r = SeedRandom(epoch.seed, flappy.draws, salt)
                 /\ flappy' = [flappy EXCEPT
                       !.draws = @ + 1,
                       !.epochs[n].tops =
                           Append(@, IF flappy.class = "FlappyGame"
                                     THEN LegacyTopPipeHeight(r) ELSE ThemedTopHeight(r))]
    /\ lastOp' = [op |-> "tick"]
    /\ OnlyEpochs

NextEpochs ==
    \/ EpochBegin
    \/ EpochGenerateObstacle

\* ---------------------------------------------------------------------------
\* The animation loop of the themed games: BreakoutGame (part_006 1201-1234,
\* 1552-1567) and FlappyGame (src/games/flappy.ts 185-210, 490-505).  The
\* launcher constructs the game and calls start(); its restart button calls
\* restart() whenever a game exists (part_004 51-55).
\* ---------------------------------------------------------------------------

\* Frames that may be pending at once.
MaxPending == 4

\* The game after its constructor: no frame requested.
ThemedLoopConstructed(class) ==
    [class |-> class, gameRunning |-> FALSE, gameLoop |-> NoTimer]

\* start(): gameRunning = true; gameLoop = requestAnimationFrame(update).
\* It gives the instance and the scheduler it leaves.
ThemedLoopStartRun(g, sch) ==
    LET id == NewTimerId(sch)
    IN  [g |-> [g EXCEPT !.gameRunning = TRUE, !.gameLoop = id],
         sch |-> sch \cup {Frame("themed", id)}]

\* How an update() of a running game may end: it goes on; it ends the game
\* and returns (gameWon, gameOver, the bird off the canvas); or, in Flappy,
\* checkCollisions ends the game on a pipe and update() still requests the
\* next frame (src/games/flappy.ts 194-209).
ThemedLoopOutcomes(g) ==
    {"continue", "ends"} \cup (IF g.class = "FlappyGame" THEN {"endsOnPipe"} ELSE {})

\* update() as the callback of frame t.
ThemedLoopUpdateRun(g, sch, o) ==
    IF ~g.gameRunning THEN [g |-> g, sch |-> sch]
    ELSE IF o = "ends" THEN [g |-> [g EXCEPT !.gameRunning = FALSE], sch |-> sch]
    ELSE LET id == NewTimerId(sch)
         IN  [g |-> [g EXCEPT !.gameRunning = (o = "continue"), !.gameLoop = id],
              sch |-> sch \cup {Frame("themed", id)}]

OnlyLoop == UNCHANGED <<variationVars, fetches, halted, flappy, snakeVars, PADDLE_WIDTH,
                        BALL_SPEED_MULTIPLIER, launcherVars>>

InitLoop ==
    /\ PADDLE_WIDTH = DEFAULT_PADDLE_WIDTH
    /\ BALL_SPEED_MULTIPLIER = DEFAULT_BALL_SPEED_MULTIPLIER
    /\ \E class \in {"BreakoutGame", "FlappyGame"} : breakout = ThemedLoopConstructed(class)

\* start(), called once by the launcher after it has constructed the game
\* (part_004 139).
ThemedLoopStart ==
    /\ breakout.gameLoop = NoTimer
    /\ Cardinality(scheduler) < MaxPending
    /\ LET r == ThemedLoopStartRun(breakout, scheduler)
       IN  breakout' = r.g /\ scheduler' = r.sch
    /\ lastOp' = [op |-> "start"]
    /\ OnlyLoop

\* restart(): the fields are reset, then setupGame() and start().
ThemedLoopRestart ==
    /\ Cardinality(scheduler) < MaxPending
    /\ LET r == ThemedLoopStartRun(breakout, scheduler)
       IN  breakout' = r.g /\ scheduler' = r.sch
    /\ lastOp' = [op |-> "restart", wasRunning |-> breakout.gameRunning]
    /\ OnlyLoop

\* A pending animation frame fires: update().
ThemedLoopFrame ==
    \E t \in scheduler, o \in ThemedLoopOutcomes(breakout) :
        /\ ~breakout.gameRunning => o = "continue"
        /\ LET r == ThemedLoopUpdateRun(breakout, scheduler \ {t}, o)
           IN  breakout' = r.g /\ scheduler' = r.sch
        /\ lastOp' = [op |-> "tick"]
        /\ OnlyLoop

\* destroy(): gameRunning = false; cancelAnimationFrame(gameLoop).
ThemedLoopDestroy ==
    /\ breakout' = [breakout EXCEPT !.gameRunning = FALSE]
    /\ scheduler' = Cancel(scheduler, "themed", breakout.gameLoop)
    /\ lastOp' = [op |-> "destroy"]
    /\ OnlyLoop

NextLoop ==
    \/ ThemedLoopStart
    \/ ThemedLoopRestart
    \/ ThemedLoopFrame
    \/ ThemedLoopDestroy

\* ---------------------------------------------------------------------------
\* Snake: the heading between key presses and ticks, for the legacy SnakeGame
\* (games/snake/index.ts 196-228, update 110-140) and the themed SnakeGame
\* (part_006 173-202, update 229-240).  Where the snake is on the grid does
\* not enter the key handlers; a tick either goes on or ends the game.
\* ---------------------------------------------------------------------------

\* Ticks in one run.
MaxHeadingTicks == 3

\* No tick has been made yet.
NoHeading == Pos(0, 0)

Negated(d) == Pos(-d.x, -d.y)

HeadingKeys == {"ArrowUp", "ArrowDown", "ArrowLeft", "ArrowRight", "w"}

\* The direction an arrow key names.
KeyDirection(key) ==
    CASE key = "ArrowUp" -> Pos(0, -1)
      [] key = "ArrowDown" -> Pos(0, 1)
      [] key = "ArrowLeft" -> Pos(-1, 0)
      [] key = "ArrowRight" -> Pos(1, 0)
      [] OTHER -> NoHeading

\* games/snake/index.ts lines 206-227: the switch of handleKeyPress.
LegacyKeyDirection(direction, key) ==
    IF key \in {"ArrowUp", "ArrowDown"} /\ direction.y = 0 THEN KeyDirection(key)
    ELSE IF key \in {"ArrowLeft", "ArrowRight"} /\ direction.x = 0 THEN KeyDirection(key)
    ELSE direction

OnlyHeading == UNCHANGED <<variationVars, fetches, scheduler, halted, flappy, SNAKE_COLOR,
                           FOOD_COLOR, breakoutVars, launcherVars>>

\* A game of either class, started, heading right.
InitHeading ==
    /\ SNAKE_COLOR = "green" /\ FOOD_COLOR = "red"
    /\ \E class \in {"legacy", "themed"}, isInverted \in BOOLEAN :
          /\ class = "legacy" => ~isInverted
          /\ snake = [class |-> class, direction |-> Pos(1, 0), isInverted |-> isInverted,
                      moved |-> NoHeading, running |-> TRUE, ticks |-> 0]

\* A keydown event.
HeadingKeydown ==
    \E key \in HeadingKeys :
        /\ snake' = IF ~snake.running THEN snake
                    ELSE [snake EXCEPT !.direction =
                             IF snake.class = "legacy"
                             THEN LegacyKeyDirection(snake.direction, key)
                             ELSE ThemedKeydownDirection(snake.direction, key, snake.isInverted)]
        /\ lastOp' = [op |-> "key", key |-> key, before |-> snake.direction,
                      running |-> snake.running]
        /\ OnlyHeading

\* A tick: update() moves the head by this.direction; over tells whether the
\* move ends the game.
HeadingTick ==
    \E over \in BOOLEAN :
        /\ snake.running
        /\ snake.ticks < MaxHeadingTicks
        /\ snake' = [snake EXCEPT !.moved = snake.direction, !.running = ~over,
                                  !.ticks = @ + 1]
        /\ lastOp' = [op |-> "tick", previous |-> snake.moved]
        /\ OnlyHeading

NextHeading ==
    \/ HeadingKeydown
    \/ HeadingTick

\* ---------------------------------------------------------------------------
\* Themed games: power-ups and restart().  BreakoutGame (part_006 1037-1575)
\* is kept in breakout and FlappyGame (src/games/flappy.ts 54-506) in flappy;
\* the launcher builds one of them.  Ball, bird and pipe positions do not
\* enter restart() and are not kept here: a brick is destroyed, a power-up is
\* reached or missed, a ball is lost when the model says so.
\* ---------------------------------------------------------------------------

\* Power-ups that can be on their way at once.
MaxPowerUps == 2

\* Bricks destroyed since the bricks were laid out.
MaxBroken == 2

\* scoreBoost power-ups collected in one round of Flappy.
MaxBoosts == 1

THEMED_BRICK_POINTS == 10
THEMED_POWERUP_FRAMES == 300
THEMED_SHIELD_PENALTY == 60
THEMED_DOUBLE_JUMPS == 3
THEMED_SCORE_BOOST == 5

BreakoutPowerUpTypes == {"extraBall", "largePaddle", "slowBall", "extraLife"}
FlappyPowerUpTypes == {"shield", "slowTime", "doubleJump", "scoreBoost"}
NoPowerUp == "none"

\* part_006 lines 1044-1049, 1083-1121, 1201-1204: field initialisers,
\* setupGame() and start(): the state of new BreakoutGame(...) once started.
\* broken counts the bricks missing from createBricks()'s layout, slowed the
\* slowBall factors on the balls.
ThemedBreakoutFresh ==
    [score |-> 0, lives |-> THEMED_LIVES, combo |-> 0, powerUps |-> <<>>,
     paddleWidth |-> THEMED_BASE_PADDLE_SIZE \div 100, balls |-> 1, slowed |-> 0, broken |-> 0,
     gameRunning |-> TRUE]

\* part_006 lines 1552-1560: restart()
ThemedBreakoutRestart(g) ==
    [g EXCEPT !.score = 0, !.lives = THEMED_LIVES, !.combo = 0,
              !.paddleWidth = ThemedBreakoutFresh.paddleWidth,
              !.balls = ThemedBreakoutFresh.balls, !.slowed = 0, !.broken = 0,
              !.gameRunning = TRUE]

\* part_006 lines 1281-1302: applyPowerUp(type)
ThemedBreakoutApply(g, type) ==
    CASE type = "extraBall" -> IF g.balls > 0 THEN [g EXCEPT !.balls = @ + 1] ELSE g
      [] type = "largePaddle" ->
            [g EXCEPT !.paddleWidth =
                 IF (@ * 3) \div 2 < (THEMED_CANVAS_WIDTH * 3) \div 10
                 THEN (@ * 3) \div 2 ELSE (THEMED_CANVAS_WIDTH * 3) \div 10]
      [] type = "slowBall" -> [g EXCEPT !.slowed = IF g.balls > 0 THEN @ + 1 ELSE @]
      [] OTHER -> [g EXCEPT !.lives = @ + 1]

\* flappy.ts lines 60-62, 81-86, 117-137, 185-189: the state of
\* new FlappyGame(...) once started.
ThemedFlappyFresh ==
    [score |-> 0, powerUps |-> <<>>, shieldActive |-> FALSE, shieldTime |-> 0,
     slowTimeActive |-> FALSE, slowTimeRemaining |-> 0, doubleJumpActive |-> FALSE,
     doubleJumpRemaining |-> 0, gameRunning |-> TRUE]

\* flappy.ts lines 490-498: restart()
ThemedFlappyRestart(g) ==
    [g EXCEPT !.score = 0, !.shieldActive = FALSE, !.slowTimeActive = FALSE,
              !.doubleJumpActive = FALSE, !.doubleJumpRemaining = 0, !.gameRunning = TRUE]

\* flappy.ts lines 267-285: applyPowerUp(type)
ThemedFlappyApply(g, type) ==
    CASE type = "shield" -> [g EXCEPT !.shieldActive = TRUE, !.shieldTime = THEMED_POWERUP_FRAMES]
      [] type = "slowTime" ->
            [g EXCEPT !.slowTimeActive = TRUE, !.slowTimeRemaining = THEMED_POWERUP_FRAMES]
      [] type = "doubleJump" ->
            [g EXCEPT !.doubleJumpActive = TRUE, !.doubleJumpRemaining = THEMED_DOUBLE_JUMPS]
      [] OTHER -> [g EXCEPT !.score = @ + THEMED_SCORE_BOOST]

\* flappy.ts lines 251-264: the power-up timers over frames frames of
\* updatePowerUps()
ThemedFlappyTimers(g, frames) ==
    LET shield == IF g.shieldTime > frames THEN g.shieldTime - frames ELSE 0
        slow == IF g.slowTimeRemaining > frames THEN g.slowTimeRemaining - frames ELSE 0
    IN  [g EXCEPT !.shieldTime = IF g.shieldActive THEN shield ELSE @,
                  !.shieldActive = @ /\ shield > 0,
                  !.slowTimeRemaining = IF g.slowTimeActive THEN slow ELSE @,
                  !.slowTimeActive = @ /\ slow > 0]

OnlyRestart == UNCHANGED <<variationVars, fetches, scheduler, halted, snakeVars, PADDLE_WIDTH,
                           BALL_SPEED_MULTIPLIER, launcherVars>>

\* part_004 lines 118-139: the launcher builds one themed game and starts it.
InitRestart ==
    /\ PADDLE_WIDTH = DEFAULT_PADDLE_WIDTH
    /\ BALL_SPEED_MULTIPLIER = DEFAULT_BALL_SPEED_MULTIPLIER
    /\ instances = <<>> /\ launches = <<>> /\ screenShown = "game"
    /\ \/ currentGame = "breakout" /\ breakout = ThemedBreakoutFresh /\ flappy = NULL
       \/ currentGame = "flappy" /\ breakout = NULL /\ flappy = ThemedFlappyFresh

\* part_006 lines 1319-1346: a ball destroys a brick, which may hold a power-up.
RestartBrickBreaks ==
    \E powerUp \in BreakoutPowerUpTypes \cup {NoPowerUp} :
        /\ currentGame = "breakout"
        /\ breakout.gameRunning /\ breakout.balls > 0
        /\ breakout.broken < MaxBroken
        /\ powerUp # NoPowerUp => Len(breakout.powerUps) < MaxPowerUps
        /\ breakout' = [breakout EXCEPT
               !.combo = @ + 1,
               !.score = @ + 2 * THEMED_BRICK_POINTS * (breakout.combo + 1),
               !.broken = @ + 1,
               !.powerUps = IF powerUp = NoPowerUp THEN @ ELSE Append(@, powerUp)]
        /\ lastOp' = Other
        /\ UNCHANGED flappy
        /\ OnlyRestart

\* part_006 lines 1264-1279: the oldest falling power-up comes down to the
\* paddle's row, over the paddle (caught) or beside it.
RestartPowerUpLands ==
    \E caught \in BOOLEAN :
        /\ currentGame = "breakout"
        /\ breakout.gameRunning
        /\ breakout.powerUps # <<>>
        /\ breakout' = LET rest == [breakout EXCEPT !.powerUps = Tail(@)]
                       IN  IF caught THEN ThemedBreakoutApply(rest, Head(breakout.powerUps))
                           ELSE rest
        /\ lastOp' = Other
        /\ UNCHANGED flappy
        /\ OnlyRestart

\* part_006 line 1252: a ball leaving through the bottom costs a life when
\* the array being filtered holds one ball.
ThemedLosesLife_Always(balls) == TRUE

ThemedLosesLife(balls) == balls = 1

\* part_006 lines 1236-1259, 1227-1230: on one tick leaving of the balls go
\* out through the bottom; each is filtered out, the filter's result
\* replaces the ball resetBall() made, and update() ends the game when no
\* ball and no life is left.
RestartBallLost ==
    \E leaving \in 1..MaxPowerUps + 1 :
        /\ currentGame = "breakout"
        /\ breakout.gameRunning
        /\ leaving <= breakout.balls
        /\ breakout' =
              LET lives == IF ThemedLosesLife(breakout.balls) THEN breakout.lives - 1
                           ELSE breakout.lives
                  balls == breakout.balls - leaving
              IN  [breakout EXCEPT !.balls = balls, !.lives = lives,
                                   !.gameRunning = ~(balls = 0 /\ lives <= 0)]
        /\ lastOp' = [op |-> "lost", left |-> leaving]
        /\ UNCHANGED flappy
        /\ OnlyRestart

\* part_004 lines 51-55, part_006 lines 1552-1560: the restart button
RestartBreakout ==
    /\ currentGame = "breakout"
    /\ breakout' = ThemedBreakoutRestart(breakout)
    /\ lastOp' = Op("restart")
    /\ UNCHANGED flappy
    /\ OnlyRestart

\* flappy.ts lines 296-324: createPipe() may put a power-up in the gap.
RestartPipeSpawns ==
    \E powerUp \in FlappyPowerUpTypes :
        /\ currentGame = "flappy"
        /\ flappy.gameRunning
        /\ Len(flappy.powerUps) < MaxPowerUps
        /\ flappy' = [flappy EXCEPT !.powerUps = Append(@, powerUp)]
        /\ lastOp' = Other
        /\ UNCHANGED breakout
        /\ OnlyRestart

\* flappy.ts lines 235-249: the oldest power-up reaches the bird's column,
\* at the bird (collected) or away from it.
RestartPowerUpPasses ==
    \E collected \in BOOLEAN :
        /\ currentGame = "flappy"
        /\ flappy.gameRunning
        /\ flappy.powerUps # <<>>
        /\ (collected /\ Head(flappy.powerUps) = "scoreBoost") =>
               flappy.score < MaxBoosts * THEMED_SCORE_BOOST
        /\ flappy' = LET rest == [flappy EXCEPT !.powerUps = Tail(@)]
                     IN  IF collected THEN ThemedFlappyApply(rest, Head(flappy.powerUps))
                         ELSE rest
        /\ lastOp' = Other
        /\ UNCHANGED breakout
        /\ OnlyRestart

\* flappy.ts lines 251-264: one second (60 frames) of the power-up timers
RestartSecondPasses ==
    /\ currentGame = "flappy"
    /\ flappy.gameRunning
    /\ flappy.shieldActive \/ flappy.slowTimeActive
    /\ flappy' = ThemedFlappyTimers(flappy, THEMED_SHIELD_PENALTY)
    /\ lastOp' = Other
    /\ UNCHANGED breakout
    /\ OnlyRestart

\* flappy.ts lines 149-162: jump() uses up a double jump
RestartJump ==
    /\ currentGame = "flappy"
    /\ flappy.gameRunning
    /\ flappy.doubleJumpActive /\ flappy.doubleJumpRemaining > 0
    /\ flappy' = [flappy EXCEPT !.doubleJumpRemaining = @ - 1]
    /\ lastOp' = Other
    /\ UNCHANGED breakout
    /\ OnlyRestart

\* flappy.ts lines 327-346, 469-470: the bird hits a pipe; a shield pays with
\* a second of its time, otherwise the game is over.
RestartPipeHit ==
    /\ currentGame = "flappy"
    /\ flappy.gameRunning
    /\ flappy' = IF ~flappy.shieldActive THEN [flappy EXCEPT !.gameRunning = FALSE]
                 ELSE [flappy EXCEPT !.shieldTime =
                          IF @ > THEMED_SHIELD_PENALTY THEN @ - THEMED_SHIELD_PENALTY ELSE 0]
    /\ lastOp' = Other
    /\ UNCHANGED breakout
    /\ OnlyRestart

\* part_004 lines 51-55, flappy.ts lines 490-498: the restart button
RestartFlappy ==
    /\ currentGame = "flappy"
    /\ flappy' = ThemedFlappyRestart(flappy)
    /\ lastOp' = Op("restart")
    /\ UNCHANGED breakout
    /\ OnlyRestart

NextRestart ==
    \/ RestartBrickBreaks
    \/ RestartPowerUpLands
    \/ RestartBallLost
    \/ RestartBreakout
    \/ RestartPipeSpawns
    \/ RestartPowerUpPasses
    \/ RestartSecondPasses
    \/ RestartJump
    \/ RestartPipeHit
    \/ RestartFlappy

\* ---------------------------------------------------------------------------
\* Themed Breakout: the paddle under keyboard steps, mouse moves and the
\* largePaddle power-up (part_006 1155-1195, 1281-1303).  Lengths are in
\* hundredths of a pixel.
\* ---------------------------------------------------------------------------

THEMED_PADDLE_SPEED == 1200

PaddleMouseX == {0, 40000, 80000}

\* part_006 lines 1067-1077, 1083-1105: the paddle of a new game
ThemedPaddleGame(invertedControls, slowMotion) ==
    [paddleX |-> (THEMED_CANVAS_WIDTH * 100) \div 2 - THEMED_BASE_PADDLE_SIZE \div 2,
     paddleWidth |-> THEMED_BASE_PADDLE_SIZE,
     paddleSpeed |-> IF slowMotion THEN THEMED_PADDLE_SPEED \div 2 ELSE THEMED_PADDLE_SPEED,
     invertedControls |-> invertedControls, keys |-> {}]

\* part_006 lines 1181-1194: handleInput()
ThemedHandleInput(g) ==
    LET left == "ArrowLeft" \in g.keys
        right == "ArrowRight" \in g.keys
        moveLeft == IF g.invertedControls THEN right ELSE left
        moveRight == IF g.invertedControls THEN left ELSE right
        x1 == IF moveLeft /\ g.paddleX > 0 THEN g.paddleX - g.paddleSpeed ELSE g.paddleX
        x2 == IF moveRight /\ x1 + g.paddleWidth < THEMED_CANVAS_WIDTH * 100
              THEN x1 + g.paddleSpeed ELSE x1
    IN  [g EXCEPT !.paddleX = x2]

\* part_006 lines 1290-1292: the largePaddle power-up
ThemedLargePaddle(g) ==
    LET wider == (g.paddleWidth * 3) \div 2
        most == (THEMED_CANVAS_WIDTH * 100 * 3) \div 10
    IN  [g EXCEPT !.paddleWidth = IF wider < most THEN wider ELSE most]

OnlyPaddle == UNCHANGED <<variationVars, fetches, scheduler, halted, flappy, snakeVars,
                          PADDLE_WIDTH, BALL_SPEED_MULTIPLIER, launcherVars>>

InitPaddle ==
    /\ PADDLE_WIDTH = DEFAULT_PADDLE_WIDTH
    /\ BALL_SPEED_MULTIPLIER = DEFAULT_BALL_SPEED_MULTIPLIER
    /\ \E invertedControls \in BOOLEAN, slowMotion \in BOOLEAN :
          breakout = ThemedPaddleGame(invertedControls, slowMotion)

\* part_006 lines 1158-1164: keydown and keyup
PaddleKey ==
    \E key \in {"ArrowLeft", "ArrowRight"}, down \in BOOLEAN :
        /\ breakout' = [breakout EXCEPT !.keys = IF down THEN @ \cup {key} ELSE @ \ {key}]
        /\ lastOp' = [op |-> "key"]
        /\ OnlyPaddle

\* part_006 lines 1206-1209: a tick's handleInput()
PaddleHandleInput ==
    /\ breakout' = ThemedHandleInput(breakout)
    /\ lastOp' = [op |-> "input"]
    /\ OnlyPaddle

\* part_006 lines 1167-1178: the mousemove listener
PaddleMouseMove ==
    \E mouseX \in PaddleMouseX :
        /\ breakout' = ThemedMouseMove(breakout, mouseX)
        /\ lastOp' = [op |-> "mouse"]
        /\ OnlyPaddle

\* part_006 lines 1264-1279, 1290-1292: the paddle catches a largePaddle
PaddleGrows ==
    /\ breakout' = ThemedLargePaddle(breakout)
    /\ lastOp' = [op |-> "largePaddle"]
    /\ OnlyPaddle

NextPaddle ==
    \/ PaddleKey
    \/ PaddleHandleInput
    \/ PaddleMouseMove
    \/ PaddleGrows

\* ---------------------------------------------------------------------------
\* The themed SnakeGame with its score, its combo and the ghostMode timer
\* (part_006 93-129, 151-170, 229-312).  One food is on the grid
\* (gameSpecific.foodTypes absent); scoreMultiplier is in hundredths.
\* ---------------------------------------------------------------------------

\* Foods eaten in one game.
MaxCombo == 2

THEMED_GHOST_FRAMES == 30
THEMED_FOOD_BASE == 10
THEMED_FOOD_STEP == 5

\* part_006 line 216: value: 10 + floor(random * 3) * 5
FoodValues == {THEMED_FOOD_BASE + FloorMul(r, 3) * THEMED_FOOD_STEP : r \in Entropy}

\* The bundles of the games: walls, complexityBonus in hundredths
\* (dist/variation.js line 126: rng() * 0.5), doubleScore, ghostMode.
FoodBundles ==
    {[wallBehavior |-> "solid", complexityBonus |-> 25, doubleScore |-> FALSE, ghostMode |-> FALSE],
     [wallBehavior |-> "wrap", complexityBonus |-> 0, doubleScore |-> TRUE, ghostMode |-> FALSE]}

\* part_006 lines 104-109: scoreMultiplier
ThemedScoreMultiplier(complexityBonus, doubleScore) ==
    IF doubleScore THEN (100 + complexityBonus) * 2 ELSE 100 + complexityBonus

\* A faulty variant: the multiplier is left out.
ThemedPoints_Plain(value, scoreMultiplier) == value

\* part_006 line 273: Math.floor(food.value * this.scoreMultiplier)
ThemedPoints(value, scoreMultiplier) == (value * scoreMultiplier) \div 100

\* part_006 lines 232-234: the ghost timer at the start of update()
ThemedGhostTimer(g) ==
    IF g.hasGhostMode /\ g.ghostModeTimer > 0 THEN [g EXCEPT !.ghostModeTimer = @ - 1] ELSE g

\* A faulty variant: the snake is immune whenever the bundle has ghostMode.
ThemedSelfCollision_Modifier(g, onBody) == ~g.hasGhostMode /\ onBody

\* part_006 line 261: the self-collision test; onBody tells whether a
\* segment lies on the new head's cell.
ThemedSelfCollision(g, onBody) == g.ghostModeTimer = 0 /\ onBody

\* part_006 lines 289-291: ghost mode is activated by eating
ThemedGhostActivated(g) ==
    IF g.hasGhostMode THEN [g EXCEPT !.ghostModeTimer = THEMED_GHOST_FRAMES] ELSE g

\* part_006 lines 228-312: update(); food is what generateFood makes when the
\* head eats.
ThemedFoodUpdate(g, food) ==
    IF ~g.gameRunning THEN g
    ELSE LET g0 == ThemedGhostTimer(g)
             moved == ThemedNewHead(g0)
             head == IF g0.wallBehavior = "wrap" THEN ThemedWrap(moved) ELSE moved
         IN  IF g0.wallBehavior # "wrap" /\ ThemedHitsWall(head)
             THEN [g0 EXCEPT !.gameRunning = FALSE]
             ELSE IF ThemedSelfCollision(g0, OnAny(head, g0.snake))
             THEN [g0 EXCEPT !.gameRunning = FALSE]
             ELSE LET grown == <<head>> \o g0.snake
                      eaten == SelectSeq(g0.foods, LAMBDA f : f.x = head.x /\ f.y = head.y)
                      left == SelectSeq(g0.foods, LAMBDA f : ~(f.x = head.x /\ f.y = head.y))
                      foodEaten == eaten # <<>>
                      popped == IF foodEaten THEN grown ELSE SubSeq(grown, 1, Len(grown) - 1)
                      capped == IF Len(popped) > g0.maxLength
                                THEN SubSeq(popped, 1, Len(popped) - 1) ELSE popped
                      g1 == IF foodEaten THEN ThemedGhostActivated(g0) ELSE g0
                  IN  [g1 EXCEPT
                          !.snake = capped,
                          !.score = IF foodEaten
                                    THEN @ + ThemedPoints(eaten[1].value, g0.scoreMultiplier)
                                    ELSE @,
                          !.combo = IF foodEaten THEN @ + 1 ELSE @,
                          !.foods = IF left = <<>> THEN <<food>> ELSE left]

OnlyFood ==
    UNCHANGED <<variationVars, fetches, scheduler, halted, flappy, SNAKE_COLOR, FOOD_COLOR,
                breakoutVars, launcherVars>>

\* part_006 lines 83-91, 606-610: new SnakeGame(canvas, variation), started
InitFood ==
    /\ SNAKE_COLOR = "green" /\ FOOD_COLOR = "red"
    /\ \E bundle \in FoodBundles, cell \in GenerateFoodOutcomes, value \in FoodValues :
            snake = [ThemedInitGame([snake |-> <<>>, direction |-> Pos(1, 0), foods |-> <<>>,
                                     gameRunning |-> TRUE, wallBehavior |-> bundle.wallBehavior,
                                     maxLength |-> SnakeMaxLength, score |-> 0, combo |-> 0,
                                     scoreMultiplier |->
                                         ThemedScoreMultiplier(bundle.complexityBonus,
                                                               bundle.doubleScore),
                                     hasGhostMode |-> bundle.ghostMode, ghostModeTimer |-> 0])
                     EXCEPT !.foods = <<[x |-> cell.x, y |-> cell.y, value |-> value]>>]

\* part_006 lines 174-201: the keydown listener, without invertedControls
FoodKeydown ==
    \E key \in {"ArrowUp", "ArrowDown", "ArrowLeft", "ArrowRight"} :
        /\ snake.gameRunning
        /\ snake' = [snake EXCEPT !.direction = ThemedKeydownDirection(snake.direction, key, FALSE)]
        /\ lastOp' = [op |-> "key"]
        /\ OnlyFood

\* part_006 lines 612-633: a frame of animate() whose deltaTime reached gameSpeed
FoodTick ==
    \E cell \in GenerateFoodOutcomes, value \in FoodValues :
        /\ snake.gameRunning
        /\ snake.combo < MaxCombo
        /\ snake' = ThemedFoodUpdate(snake, [x |-> cell.x, y |-> cell.y, value |-> value])
        /\ lastOp' = [op |-> "tick", ate |-> snake'.combo > snake.combo]
        /\ OnlyFood

NextFood ==
    \/ FoodKeydown
    \/ FoodTick

\* ---------------------------------------------------------------------------
\* The themed SnakeGame's ghost timer over many ticks (part_006 228-312).
\* The cells are left out: whether the new head is outside the walls, on a
\* segment or on a food is given to each tick.
\* ---------------------------------------------------------------------------

\* part_006 lines 81, 165, 606-610: a started game; sinceFood counts the
\* ticks since food was last eaten, up to THEMED_GHOST_FRAMES + 1.
ThemedGhostGame(ghostMode) ==
    [hasGhostMode |-> ghostMode, ghostModeTimer |-> 0, gameRunning |-> TRUE,
     sinceFood |-> THEMED_GHOST_FRAMES + 1]

\* part_006 lines 228-292: update(), as far as the timer and the end of the
\* game go.
ThemedGhostUpdate(g, hitsWall, onBody, eats) ==
    IF ~g.gameRunning THEN g
    ELSE LET g0 == [ThemedGhostTimer(g) EXCEPT
                       !.sinceFood = IF @ > THEMED_GHOST_FRAMES THEN @ ELSE @ + 1]
         IN  IF hitsWall THEN [g0 EXCEPT !.gameRunning = FALSE]
             ELSE IF ThemedSelfCollision(g0, onBody) THEN [g0 EXCEPT !.gameRunning = FALSE]
             ELSE IF eats THEN [ThemedGhostActivated(g0) EXCEPT !.sinceFood = 0]
             ELSE g0

OnlyGhost ==
    UNCHANGED <<variationVars, fetches, scheduler, halted, flappy, SNAKE_COLOR, FOOD_COLOR,
                breakoutVars, launcherVars>>

InitGhost ==
    /\ SNAKE_COLOR = "green" /\ FOOD_COLOR = "red"
    /\ \E ghostMode \in BOOLEAN : snake = ThemedGhostGame(ghostMode)

\* part_006 lines 612-633: a frame of animate() whose deltaTime reached gameSpeed
GhostTick ==
    \E hitsWall \in BOOLEAN, onBody \in BOOLEAN, eats \in BOOLEAN :
        /\ snake.gameRunning
        /\ snake' = ThemedGhostUpdate(snake, hitsWall, onBody, eats)
        /\ lastOp' = [op |-> "tick", hitsWall |-> hitsWall, onBody |-> onBody, eats |-> eats]
        /\ OnlyGhost

\* part_006 lines 635-645: restart()
GhostRestart ==
    /\ snake' = ThemedGhostGame(snake.hasGhostMode)
    /\ lastOp' = [op |-> "restart"]
    /\ OnlyGhost

NextGhost ==
    \/ GhostTick
    \/ GhostRestart

\* ---------------------------------------------------------------------------
\* FlappyGame (games/flappy/index.ts): the gap of the applied bundle and the
\* obstacles generateObstacle makes with it.  The bird and the frames are left
\* out; heights are in hundredths of a pixel, the gap in pixels.
\* ---------------------------------------------------------------------------

\* The gaps a response may carry: no number, the two sides of the sanity
\* check of line 140, the extremes the backend draws, and gaps about
\* CANVAS_HEIGHT - 2 * minPipeHeight.
PipeGaps ==
    {JString("wide"), JNumber(50), JNumber(51), JNumber(FlappyGapMin), JNumber(FlappyGapMax),
     JNumber(520), JNumber(521), JNumber(600)}
PipeGapBodies == [seed : {JString("seed-a"), JString("seed-b")}, gap : PipeGaps, gravity : {JNumber(55)}]
PipeGapOutcomes == {NetworkError} \cup {Ok(b) : b \in PipeGapBodies}

\* lines 255-259: topPipeHeight for rng() = r under the gap applied
TopPipeHeight(currentPipeGap, r) ==
    LET maxTopPipeHeight == CANVAS_HEIGHT - currentPipeGap - MIN_PIPE_HEIGHT
        actualMaxTopPipeHeight ==
            IF maxTopPipeHeight > MIN_PIPE_HEIGHT THEN maxTopPipeHeight ELSE MIN_PIPE_HEIGHT
    IN  (r * (actualMaxTopPipeHeight - MIN_PIPE_HEIGHT) * 100) \div RngDen + MIN_PIPE_HEIGHT * 100

\* lines 254-268: generateObstacle with rng() = r
GenerateObstacle(f, r) ==
    [f EXCEPT !.obstacles = Append(@, [x |-> CANVAS_WIDTH,
                                       topPipeHeight |-> TopPipeHeight(f.currentPipeGap, r),
                                       gap |-> f.currentPipeGap,
                                       passed |-> FALSE])]

OnlyPipeGap ==
    UNCHANGED <<variationVars, fetches, scheduler, halted, snakeVars, breakoutVars, launcherVars>>

\* The constructed game, its first fetch in flight.
InitPipeGap == flappy = FlappyConstructed

\* lines 128-160: the constructor's fetchVariationAndInitialize settles
PipeGapFetchSettles ==
    \E outcome \in PipeGapOutcomes :
        /\ flappy.isLoadingVariations
        /\ flappy' = FlappySettled(flappy, outcome)
        /\ lastOp' = [op |-> "settled", accepted |-> FlappyAccepts(outcome)]
        /\ OnlyPipeGap

\* lines 184-208: start() with the fetch it awaits
PipeGapStart ==
    \E outcome \in PipeGapOutcomes :
        /\ ~flappy.isLoadingVariations
        /\ flappy' = FlappyResumed(FlappySettled(flappy, outcome), 1)
        /\ lastOp' = [op |-> "settled", accepted |-> FlappyAccepts(outcome)]
        /\ OnlyPipeGap

\* lines 289-293: update() past PIPE_SPAWN_INTERVAL calls generateObstacle
PipeGapSpawn ==
    \E r \in RngOutcomes :
        /\ ~flappy.isGameOver /\ ~flappy.isLoadingVariations
        /\ Len(flappy.obstacles) < MaxObstacles
        /\ flappy' = GenerateObstacle(flappy, r)
        /\ lastOp' = [op |-> "tick"]
        /\ OnlyPipeGap

NextPipeGap ==
    \/ PipeGapFetchSettles
    \/ PipeGapStart
    \/ PipeGapSpawn

\* ---------------------------------------------------------------------------
\* Food placement in Snake on a small grid: the legacy SnakeGame
\* (games/snake/index.ts; src/games/snake.ts has the same loop) and the themed
\* SnakeGame (part_006) with solid walls and two food items.  One pass of the
\* do-while loop of generateFoodPosition / generateFood is one step.
\* ---------------------------------------------------------------------------

\* The grid: CANVAS_WIDTH / GRID_SIZE columns and CANVAS_HEIGHT / GRID_SIZE rows.
PlaceCols == 4
PlaceRows == 2
\* part_006 line 220: attempts < 100
THEMED_FOOD_ATTEMPTS == 100

PlaceInside(p) == p.x >= 0 /\ p.x < PlaceCols /\ p.y >= 0 /\ p.y < PlaceRows

\* The cell of two numbers drawn: Math.floor(rng() * columns), Math.floor(rng() * rows)
\* (games/snake/index.ts 81, 184-187; part_006 213-214).
PlaceCell(r1, r2) == Pos(FloorMul(r1, PlaceCols), FloorMul(r2, PlaceRows))

\* games/snake/index.ts 79-84, part_006 151-166: the snake after resetGame /
\* initGame, before the food is generated; the themed snake has three
\* segments from the centre, the legacy one a single segment on the cell drawn.
PlaceFresh(class, cell) ==
    LET centerX == PlaceCols \div 2
        centerY == PlaceRows \div 2
    IN  [class |-> class,
         snake |-> IF class = "themed"
                   THEN <<Pos(centerX, centerY), Pos(centerX - 1, centerY), Pos(centerX - 2, centerY)>>
                   ELSE <<cell>>,
         direction |-> Pos(1, 0),
         foods |-> <<>>,
         maxFoods |-> IF class = "themed" THEN 2 ELSE 1,
         isGameOver |-> FALSE,
         placing |-> TRUE,
         attempts |-> 0]

\* A faulty variant: the loop ends on its first cell.
PlaceAgain_Never(g, cell) == FALSE

\* The condition of the do-while: games/snake/index.ts 188 (isPositionOnSnake,
\* 192-194), part_006 219-223 with attempts already counted.
PlaceAgain(g, cell) ==
    IF g.class = "themed"
    THEN g.attempts + 1 < THEMED_FOOD_ATTEMPTS /\ (OnAny(cell, g.snake) \/ OnAny(cell, g.foods))
    ELSE OnAny(cell, g.snake)

\* One pass of the loop with the cell drawn: either another pass follows, or
\* the cell becomes the food (games/snake/index.ts 189, part_006 224); the
\* themed game goes on to the next food while foods.length < maxFoods
\* (part_006 167-169, 309-311).
PlacePass(g, cell) ==
    IF PlaceAgain(g, cell)
    THEN [g EXCEPT !.attempts = IF g.class = "themed" THEN @ + 1 ELSE @]
    ELSE [g EXCEPT !.foods = Append(@, cell), !.attempts = 0,
                   !.placing = Len(g.foods) + 1 < g.maxFoods]

\* games/snake/index.ts 109-138, part_006 228-312 with solid walls: update()
\* up to the call that generates food.
PlaceUpdate(g) ==
    LET head == Pos(g.snake[1].x + g.direction.x, g.snake[1].y + g.direction.y)
        onBody == IF g.class = "themed" THEN OnAny(head, g.snake)
                  ELSE \E i \in 2..Len(g.snake) : g.snake[i] = head
        eaten == {i \in DOMAIN g.foods : g.foods[i] = head}
        grown == <<head>> \o g.snake
    IN  IF ~PlaceInside(head) \/ onBody THEN [g EXCEPT !.isGameOver = TRUE]
        ELSE IF eaten # {}
             THEN [g EXCEPT !.snake = grown,
                            !.foods = SelectSeq(g.foods, LAMBDA f : f # head),
                            !.placing = TRUE, !.attempts = 0]
             ELSE [g EXCEPT !.snake = SubSeq(grown, 1, Len(g.snake))]

OnlyPlacement ==
    UNCHANGED <<variationVars, fetches, scheduler, halted, flappy, SNAKE_COLOR, FOOD_COLOR,
                breakoutVars, launcherVars>>

InitPlacement ==
    /\ SNAKE_COLOR = "green" /\ FOOD_COLOR = "red"
    /\ \E class \in {"SnakeGame", "themed"}, r1 \in RngOutcomes, r2 \in RngOutcomes :
            snake = PlaceFresh(class, PlaceCell(r1, r2))

\* One pass of the do-while loop, with the two numbers it draws.
PlacementPass ==
    \E r1 \in RngOutcomes, r2 \in RngOutcomes :
        LET cell == PlaceCell(r1, r2)
        IN  /\ snake.placing
            /\ snake' = PlacePass(snake, cell)
            /\ lastOp' = [op |-> IF PlaceAgain(snake, cell) THEN "pass" ELSE "placed"]
            /\ OnlyPlacement

\* A pass that ends the loop.
PlacementEnds == PlacementPass /\ lastOp'.op = "placed"

\* An arrow key that does not reverse the heading, and the next tick.
PlacementTick ==
    \E d \in {Pos(1, 0), Pos(-1, 0), Pos(0, 1), Pos(0, -1)} :
        /\ ~snake.placing /\ ~snake.isGameOver
        /\ d # Pos(-snake.direction.x, -snake.direction.y)
        /\ snake' = PlaceUpdate([snake EXCEPT !.direction = d])
        /\ lastOp' = [op |-> "tick"]
        /\ OnlyPlacement

\* Enter (games/snake/index.ts 199-204) or the restart button (part_006
\* 635-645) after the game ended.
PlacementReset ==
    \E r1 \in RngOutcomes, r2 \in RngOutcomes :
        /\ ~snake.placing /\ snake.isGameOver
        /\ snake' = PlaceFresh(snake.class, PlaceCell(r1, r2))
        /\ lastOp' = [op |-> "restart"]
        /\ OnlyPlacement

NextPlacement ==
    \/ PlacementPass
    \/ PlacementTick
    \/ PlacementReset

\* ---------------------------------------------------------------------------
\* The launcher's screen (src/apps/frontend/src/main.ts): the display of the
\* game selection, of the active area, of the Back to Menu button and of the
\* canvas, and the text launchGame's catch writes on the canvas.  A launch
\* fails when its import rejects or when the game's constructor or startGame
\* throws.
\* ---------------------------------------------------------------------------
NoText == [failed |-> "", error |-> ""]

\* The page as loaded (DOMContentLoaded calls showGameSelection).
ScreenLoaded ==
    [gameSelection |-> "flex", gameActiveArea |-> "none", backToMenu |-> "none",
     canvas |-> "none", text |-> NoText]

\* lines 25-36: showGameSelection, with its clearRect
ShowGameSelection(screen) ==
    [screen EXCEPT !.gameSelection = "flex", !.gameActiveArea = "none",
                   !.backToMenu = "none", !.canvas = "none", !.text = NoText]

\* lines 38-43: showGameCanvas
ShowGameCanvas(screen) ==
    [screen EXCEPT !.gameSelection = "none", !.gameActiveArea = "block",
                   !.backToMenu = "block", !.canvas = "block"]

\* lines 105-119: the catch of launchGame
LaunchCatch(screen, gameId, errorMsg) ==
    LET shown == ShowGameSelection(screen)
    IN  IF shown.canvas # "none"
        THEN [shown EXCEPT !.text = [failed |-> gameId, error |-> errorMsg]]
        ELSE shown

OnlyScreen == UNCHANGED <<variationVars, fetches, scheduler, halted, flappy, snakeVars, breakoutVars>>

InitScreen ==
    /\ currentGame = NoGame
    /\ instances = <<>>
    /\ launches = <<>>
    /\ screenShown = ScreenLoaded

\* lines 45-63: a play button is clicked: launchGame up to its first await
ScreenLaunchGame ==
    \E gameId \in LauncherGameIds :
        /\ screenShown.gameSelection = "flex"
        /\ Len(instances) + Len(launches) < MaxLaunches
        /\ instances' = TornDown(instances, currentGame)
        /\ currentGame' = NoGame
        /\ screenShown' = ShowGameCanvas(screenShown)
        /\ launches' = Append(launches, [gameId |-> gameId, pc |-> "import"])
        /\ lastOp' = [op |-> "launch", gameId |-> gameId]
        /\ OnlyScreen

\* lines 66-119: the import of a launch settles: it rejects, or the
\* constructor throws, or the game is constructed (Flappy awaits startGame).
ScreenImportSettles ==
    \E i \in DOMAIN launches, how \in {"rejected", "throws", "ok"} :
        LET gameId == launches[i].gameId
        IN  /\ launches[i].pc = "import"
            /\ how = "throws" => gameId # "flappy"
            /\ IF how # "ok"
               THEN /\ launches' = RemoveAt(launches, i)
                    /\ screenShown' = LaunchCatch(screenShown, gameId, how)
                    /\ lastOp' = [op |-> "failed", gameId |-> gameId]
                    /\ UNCHANGED <<instances, currentGame>>
               ELSE IF gameId = "flappy"
               THEN /\ launches' = [launches EXCEPT ![i].pc = "startGame"]
                    /\ lastOp' = [op |-> "imported", gameId |-> gameId]
                    /\ UNCHANGED <<instances, currentGame, screenShown>>
               ELSE /\ launches' = RemoveAt(launches, i)
                    /\ instances' = Append(instances, Constructed(gameId))
                    /\ currentGame' = Len(instances) + 1
                    /\ lastOp' = [op |-> "loaded", gameId |-> gameId]
                    /\ UNCHANGED screenShown
            /\ OnlyScreen

\* lines 80, 105-119: Flappy's startGame settles: the Game is constructed, or
\* its constructor throws.
ScreenStartGameSettles ==
    \E i \in DOMAIN launches, how \in {"throws", "ok"} :
        /\ launches[i].pc = "startGame"
        /\ launches' = RemoveAt(launches, i)
        /\ IF how = "ok"
           THEN /\ instances' = Append(instances, Constructed("flappy"))
                /\ currentGame' = Len(instances) + 1
                /\ lastOp' = [op |-> "loaded", gameId |-> "flappy"]
                /\ UNCHANGED screenShown
           ELSE /\ screenShown' = LaunchCatch(screenShown, "flappy", how)
                /\ lastOp' = [op |-> "failed", gameId |-> "flappy"]
                /\ UNCHANGED <<instances, currentGame>>
        /\ OnlyScreen

\* lines 124-137: Back to Menu is clicked
ScreenBackToMenu ==
    /\ screenShown.backToMenu = "block"
    /\ instances' = TornDown(instances, currentGame)
    /\ currentGame' = NoGame
    /\ screenShown' = ShowGameSelection(screenShown)
    /\ lastOp' = [op |-> "back", gameId |-> ""]
    /\ UNCHANGED launches
    /\ OnlyScreen

NextScreen ==
    \/ ScreenLaunchGame
    \/ ScreenImportSettles
    \/ ScreenStartGameSettles
    \/ ScreenBackToMenu

NextVariation ==
    \/ GenerateVariation
    \/ GetVariation

\* The Flappy specification starts with every other component idle.
StartFlappy == InitFlappy /\ IdleVariation /\ IdleSnake /\ IdleBreakout /\ IdleLauncher

SpecFlappy == StartFlappy /\ [][NextFlappy]_vars

\* The Snake specification starts with every other component idle.
StartSnake == InitSnake /\ IdleVariation /\ IdleFlappy /\ IdleBreakout /\ IdleLauncher

SpecSnake == StartSnake /\ [][NextSnake]_vars

\* The Breakout specification starts with every other component idle.
StartBreakout == InitBreakout /\ IdleVariation /\ IdleFlappy /\ IdleSnake /\ IdleLauncher

SpecBreakout == StartBreakout /\ [][NextBreakout]_vars

\* The Launcher specification starts with every other component idle.
StartLauncher == InitLauncher /\ IdleVariation /\ IdleShared /\ IdleFlappy /\ IdleSnake /\ IdleBreakout

SpecLauncher == StartLauncher /\ [][NextLauncher]_vars

\* The variation specification starts with every other component idle.
StartVariation == InitVariation /\ IdleShared /\ IdleFlappy /\ IdleSnake /\ IdleBreakout /\ IdleLauncher

SpecVariation == StartVariation /\ [][NextVariation]_vars

\* The session-random generator starts before its first call.
StartSession == InitSession /\ IdleShared /\ IdleFlappy /\ IdleSnake /\ IdleBreakout /\ IdleLauncher

SpecSession == StartSession /\ [][NextSession]_vars

\* The themed Snake specification starts with every other component idle.
StartThemedSnake ==
    InitThemedSnake /\ IdleVariation /\ IdleShared /\ IdleFlappy /\ IdleBreakout /\ IdleLauncher

SpecThemedSnake == StartThemedSnake /\ [][NextThemedSnake]_vars

\* The physics specification starts with every other component idle.
StartPhysics ==
    InitPhysics /\ IdleVariation /\ IdleShared /\ IdleSnake /\ IdleBreakout /\ IdleLauncher

SpecPhysics == StartPhysics /\ [][NextPhysics]_vars

\* The ball specification starts with every other component idle.
StartBall ==
    InitBall /\ IdleVariation /\ IdleShared /\ IdleFlappy /\ IdleSnake /\ IdleLauncher

SpecBall == StartBall /\ [][NextBall]_vars

\* The epochs specification starts with every other component idle.
StartEpochs ==
    InitEpochs /\ IdleVariation /\ IdleShared /\ IdleSnake /\ IdleBreakout /\ IdleLauncher

SpecEpochs == StartEpochs /\ [][NextEpochs]_vars

\* The loop specification starts with every other component idle.
StartLoop ==
    InitLoop /\ IdleVariation /\ IdleShared /\ IdleFlappy /\ IdleSnake /\ IdleLauncher

SpecLoop == StartLoop /\ [][NextLoop]_vars

\* The heading specification starts with every other component idle.
StartHeading ==
    InitHeading /\ IdleVariation /\ IdleShared /\ IdleFlappy /\ IdleBreakout /\ IdleLauncher

SpecHeading == StartHeading /\ [][NextHeading]_vars

\* The restart specification starts with every other component idle.
StartRestart == InitRestart /\ IdleVariation /\ IdleShared /\ IdleSnake

SpecRestart == StartRestart /\ [][NextRestart]_vars

\* The paddle specification starts with every other component idle.
StartPaddle ==
    InitPaddle /\ IdleVariation /\ IdleShared /\ IdleFlappy /\ IdleSnake /\ IdleLauncher

SpecPaddle == StartPaddle /\ [][NextPaddle]_vars

\* The food specification starts with every other component idle.
StartFood ==
    InitFood /\ IdleVariation /\ IdleShared /\ IdleFlappy /\ IdleBreakout /\ IdleLauncher

SpecFood == StartFood /\ [][NextFood]_vars

\* The ghost specification starts with every other component idle.
StartGhost ==
    InitGhost /\ IdleVariation /\ IdleShared /\ IdleFlappy /\ IdleBreakout /\ IdleLauncher

SpecGhost == StartGhost /\ [][NextGhost]_vars

StartPipeGap ==
    InitPipeGap /\ IdleVariation /\ IdleShared /\ IdleSnake /\ IdleBreakout /\ IdleLauncher

SpecPipeGap == StartPipeGap /\ [][NextPipeGap]_vars

StartPlacement ==
    InitPlacement /\ IdleVariation /\ IdleShared /\ IdleFlappy /\ IdleBreakout /\ IdleLauncher

\* The loop goes on while it has begun, and a cell that ends it is drawn
\* sooner or later if there is one.
SpecPlacement ==
    StartPlacement /\ [][NextPlacement]_vars /\ WF_vars(PlacementPass) /\ SF_vars(PlacementEnds)

StartScreen ==
    InitScreen /\ IdleVariation /\ IdleShared /\ IdleFlappy /\ IdleSnake /\ IdleBreakout

SpecScreen == StartScreen /\ [][NextScreen]_vars

C10_BundleValid ==
    /\ (last.id = Str_snake) =>
            /\ last.result.kind = "snake"
            /\ SnakeVariationSchema(last.result)
    /\ (last.id = Str_flappy) =>
            /\ last.result.kind = "flappy"
            /\ FlappyVariationSchema(last.result)

\* C10 witness: a Flappy bundle whose gravity was drawn at the top of its range.
C10_Witness ==
    /\ last.id = Str_flappy
    /\ last.result.kind = "flappy"
    /\ last.result.gravity = FlappyGravityMax


(***************************************************************************)
(* The Flappy life cycle.                                                  *)
(***************************************************************************)

\* C1: once stop() or destroy() has returned and start() was not invoked again,
\* no update/draw tick of the instance executes, whatever fetch was in flight.
C1_NoTickAfterStop == halted => lastOp.op # "tick"

\* The steps the phase order Loading -> Ready -> Running -> {GameOver, Won} ->
\* Loading allows.
PhaseOrder ==
    { <<"Loading", "Ready">>, <<"Ready", "Running">>, <<"Running", "GameOver">>,
      <<"Running", "Won">>, <<"GameOver", "Loading">>, <<"Won", "Loading">> }

\* C4: the phase of a simulation changes only along Loading -> Ready -> Running
\* -> {GameOver, Won} -> Loading; in particular Ready never falls back to Loading.
C4_PhaseOrder ==
    [][ FlappyPhase(flappy') # FlappyPhase(flappy)
            => <<FlappyPhase(flappy), FlappyPhase(flappy')>> \in PhaseOrder ]_vars

\* The bundle a settled fetch leaves applied, as the claims word it.
FlappyRejected(outcome) ==
    \/ outcome.how \in {"rejected", "notOk"}
    \/ /\ outcome.how = "ok"
       /\ \/ outcome.body.seed.type # "string"
          \/ ~(outcome.body.gap.type = "number" /\ outcome.body.gap.num > 50)
          \/ ~(/\ outcome.body.gravity.type = "number"
               /\ outcome.body.gravity.num > 0 /\ outcome.body.gravity.num < 200)

FlappyNewBundle(outcome) ==
    IF FlappyRejected(outcome)
    THEN <<"default-flappy-seed", 50, 150>>
    ELSE <<outcome.body.seed.str, outcome.body.gravity.num, outcome.body.gap.num>>

\* The simulation state of an instance.
FlappySimulation(f) ==
    [ birdY |-> f.birdY, birdVelocity |-> f.birdVelocity, obstacles |-> f.obstacles,
      score |-> f.score, isGameOver |-> f.isGameOver, rng |-> f.rng,
      lastPipeSpawnTime |-> f.lastPipeSpawnTime, lastFrameTime |-> f.lastFrameTime,
      currentSeed |-> f.currentSeed, currentGravity |-> f.currentGravity,
      currentPipeGap |-> f.currentPipeGap, isLoadingVariations |-> f.isLoadingVariations,
      looping |-> f.gameLoopId # NoTimer, phase |-> FlappyPhase(f) ]

\* A freshly constructed instance that was started and received the bundle.
FlappyFreshRunning(outcome) ==
    FlappyResumed(
        FlappySettled(FlappyStartCalled(FlappySettled(FlappyConstructed, outcome)), outcome),
        1)

\* C5: start() invoked in GameOver yields, once its fetch completed, the state
\* of a freshly constructed simulation with the new bundle: score 0, no
\* obstacles, bird at mid-height with velocity 0, the new seed, gravity and gap,
\* phase Running, one frame requested.
C5_RestartIsFresh ==
    (lastOp.op = "startResumed" /\ lastOp.startedIn = "GameOver") =>
        /\ flappy.score = 0
        /\ flappy.obstacles = <<>>
        /\ flappy.birdY = 300 /\ flappy.birdVelocity = 0
        /\ <<flappy.currentSeed, flappy.currentGravity, flappy.currentPipeGap>>
               = FlappyNewBundle(lastOp.outcome)
        /\ flappy.rng = flappy.currentSeed
        /\ FlappyPhase(flappy) = "Running"
        /\ Cardinality({t \in scheduler : t.owner = "flappy"}) = 1
        /\ FlappySimulation(flappy) = FlappySimulation(FlappyFreshRunning(lastOp.outcome))

\* A restart from a GameOver that had a score and obstacles on screen, with a
\* new bundle that differs from the one before.
C5_Witness ==
    /\ lastOp.op = "startResumed" /\ lastOp.startedIn = "GameOver"
    /\ lastOp.before.score > 0 /\ lastOp.before.obstacles > 0
    /\ ~FlappyRejected(lastOp.outcome)
    /\ lastOp.before.seed \notin {flappy.currentSeed, DEFAULT_SEED}

\* C6: a fetch that fails, or brings data failing the sanity check, leaves seed,
\* gravity and gap at the defaults ('default-flappy-seed', 0.5, 150) and the
\* game in Ready, whatever was applied before.
C6_DefaultsOnFailure ==
    (lastOp.op = "fetchSettled" /\ FlappyRejected(lastOp.outcome)) =>
        /\ flappy.currentSeed = "default-flappy-seed"
        /\ flappy.currentGravity = 50
        /\ flappy.currentPipeGap = 150
        /\ flappy.rng = "default-flappy-seed"
        /\ FlappyPhase(flappy) = "Ready"
        /\ flappy.score = 0 /\ flappy.obstacles = <<>>

\* An OK response whose gap is the rejected boundary 50, after an earlier fetch
\* had applied other values.
C6_Witness ==
    /\ lastOp.op = "fetchSettled"
    /\ lastOp.outcome.how = "ok"
    /\ lastOp.outcome.body.gap = JNumber(50)
    /\ lastOp.outcome.body.seed.type = "string" /\ lastOp.outcome.body.gravity = JNumber(55)
    /\ lastOp.before.seed # DEFAULT_SEED /\ lastOp.before.gap # DEFAULT_PIPE_GAP


(***************************************************************************)
(* The Snake life cycle.                                                   *)
(***************************************************************************)

\* C2: once the most recently started fetch has completed with a bundle, the
\* applied seed and parameters are that bundle's; the completion of a stale
\* fetch does not overwrite them.
C2_LastFetchWins ==
    snake.newest.how = "ok" =>
        /\ snake.rng = snake.newest.body.seed
        /\ snake.gameSpeed = snake.newest.body.speed

\* C8: when a variation fetch fails, the game is reset and runs with the default
\* settings: tick interval 150 ms, the unseeded generator, the default colours.
C8_SnakeDefaultsOnFailure ==
    (lastOp.op = "fetchSettled" /\ lastOp.outcome.how # "ok") =>
        /\ snake.gameSpeed = 150
        /\ snake.rng = Unseeded
        /\ SNAKE_COLOR = "green" /\ FOOD_COLOR = "red"
        /\ \A t \in scheduler : t.owner = "snake" => t.period = 150


(***************************************************************************)
(* The Breakout life cycle.                                                *)
(***************************************************************************)

\* C7: when the variation fetch fails, the game starts with the default paddle
\* width 75 and ball-speed multiplier 1, whatever earlier fetches had applied.
C7_BreakoutDefaultsOnFailure ==
    (lastOp.op = "fetchSettled" /\ lastOp.outcome.how # "ok") =>
        /\ PADDLE_WIDTH = 7500
        /\ BALL_SPEED_MULTIPLIER = 100
        /\ breakout.paddleX = (40000 - 7500) \div 2
        /\ breakout.ballSpeedY = 200


(***************************************************************************)
(* The launcher.                                                           *)
(***************************************************************************)

\* C3: at every moment at most one game instance has an active loop drawing to
\* the shared canvas.
C3_OneActiveLoop ==
    Cardinality({k \in DOMAIN instances : instances[k].looping}) <= 1

\* C11: generateVariation('breakout') returns a Breakout bundle (non-empty
\* seed, paddleSize in {small, medium, large}, ballSpeed in {slow, normal,
\* fast}) and not an error value.
C11_BreakoutBundle ==
    (last.id = Str_breakout) =>
        /\ last.result.kind = "breakout"
        /\ Len(last.result.seed) >= 1
        /\ last.result.paddleSize \in Range(PaddleSizes)
        /\ last.result.ballSpeed \in Range(BallSpeeds)

KnownGameIds == {Str_snake, Str_breakout, Str_flappy}

\* C12: for a game id outside {snake, breakout, flappy}, generateVariation
\* returns {error: 'Unknown gameId: <id>'} and GET /api/variation/<id> answers
\* with a 4xx status carrying an error body, never with a 200 response.
C12_UnknownIdIs4xx ==
    /\ (last # NoCall /\ last.id \notin KnownGameIds) =>
            last.result = ErrorResult(<<"Unknown gameId: ">> \o last.id)
    /\ (lastOp.op = "GET" /\ lastOp.id \notin KnownGameIds) =>
            /\ lastOp.status \in 400..499
            /\ lastOp.body.kind = "error"

\* C13: every generated bundle carries between 1 and 4 modifiers, all from
\* the fixed modifier set and pairwise distinct, whatever the random draws.
C13_Modifiers ==
    (last.result.kind = "session") =>
        LET m == last.result.modifiers
        IN  /\ Len(m) \in 1..4
            /\ \A i \in DOMAIN m : m[i] \in Range(AllModifiers)
            /\ \A i, j \in DOMAIN m : i # j => m[i] # m[j]

\* C13 witness: a bundle with four modifiers, drawn with the same outcome in
\* every iteration of the loop.
C13_Witness ==
    /\ last.result.kind = "session"
    /\ Len(last.result.modifiers) = 4
    /\ last.result.modifiers[1] = AllModifiers[1]
    /\ last.result.modifiers[2] = AllModifiers[2]

\* The tick of a running game whose moved head is outside the grid.
ThemedHeadLeaves == lastOp'.op = "tick" /\ ~InsideGrid(ThemedNewHead(snake))

\* C14: with solid walls (wallBehavior other than 'wrap') a tick whose new
\* head is outside [0, gridWidth) x [0, gridHeight) ends the game without
\* moving the snake, and every body segment lies inside the grid in every
\* reachable state.
C14_SolidWalls ==
    /\ [](snake.wallBehavior # "wrap" =>
            \A i \in DOMAIN snake.snake : InsideGrid(snake.snake[i]))
    /\ [][(ThemedHeadLeaves /\ snake.wallBehavior # "wrap") =>
            /\ ~snake'.gameRunning
            /\ snake'.snake = snake.snake]_vars

\* C14 witness: the game ended by a tick that would have moved the head off
\* the right edge.
C14_Witness ==
    /\ lastOp.op = "tick"
    /\ snake.wallBehavior = "solid"
    /\ ~snake.gameRunning
    /\ snake.snake[1].x = GridMaxX - 1
    /\ snake.direction = Pos(1, 0)

\* The cell on the opposite edge, in the same row or column, of a head that
\* leaves the grid.
OppositeCell(g) ==
    LET h == g.snake[1]
        d == g.direction
    IN  IF h.x + d.x < 0 THEN Pos(GridMaxX - 1, h.y)
        ELSE IF h.x + d.x >= GridMaxX THEN Pos(0, h.y)
        ELSE IF h.y + d.y < 0 THEN Pos(h.x, GridMaxY - 1)
        ELSE Pos(h.x, 0)

\* C15 (as amended): with wallBehavior 'wrap' a head that leaves the grid
\* reappears in the cell on the opposite edge and the game remains Running,
\* unless a body segment occupies that cell: then the tick ends the game by
\* self-collision and the snake does not move.
C15_WrapAround ==
    [][(ThemedHeadLeaves /\ snake.wallBehavior = "wrap") =>
            IF OnAny(OppositeCell(snake), snake.snake)
            THEN ~snake'.gameRunning /\ snake'.snake = snake.snake
            ELSE snake'.gameRunning /\ snake'.snake[1] = OppositeCell(snake)]_vars

\* C15 (as stated): the head reappears on the opposite edge and the game
\* remains Running.
C15_Original ==
    [][(ThemedHeadLeaves /\ snake.wallBehavior = "wrap") =>
            snake'.gameRunning /\ snake'.snake[1] = OppositeCell(snake)]_vars

\* C15 witness: the head left by the left edge and is now in the last column
\* of the same row, the game running.
C15_Witness ==
    /\ lastOp.op = "tick"
    /\ snake.wallBehavior = "wrap"
    /\ snake.gameRunning
    /\ snake.direction = Pos(-1, 0)
    /\ snake.snake[1].x = GridMaxX - 1
    /\ snake.snake[2] = Pos(0, snake.snake[1].y)

\* Where the bird will be after the gravity step of the next update().
NextBirdY(f) ==
    f.birdY + f.birdVelocity
        + (IF f.class = "FlappyGame" THEN DEFAULT_GRAVITY
           ELSE IF f.class = "Game" THEN GAME_GRAVITY ELSE THEMED_GRAVITY)

\* The value of birdY with the bird against the top edge of the canvas.
TopEdge(class) == IF class = "FlappyGame" THEN BIRD_RADIUS * 100 ELSE 0

\* C16: a Running tick in which the bird reaches the top clamps the bird to
\* the top edge with velocity 0 and the game stays Running (no pipe being on
\* screen): only the floor or a pipe ends the game.
C16_CeilingClamps ==
    [][(/\ lastOp'.op = "tick"
        /\ flappy.obstacles = <<>>
        /\ NextBirdY(flappy) < TopEdge(flappy.class)) =>
            /\ flappy'.birdY = TopEdge(flappy.class)
            /\ flappy'.birdVelocity = 0
            /\ ~flappy'.isGameOver]_vars

\* The obstacles whose passed flag the step sets.
NewlyPassed ==
    {o \in Range(flappy.obstacles) :
        ~o.passed /\ \E n \in Range(flappy'.obstacles) : n.id = o.id /\ n.passed}

NextBirdBottom(f) ==
    NextBirdY(f) + (IF f.class = "FlappyGame" THEN BIRD_RADIUS ELSE GAME_BIRD_SIZE) * 100
FloorLine(class) == (IF class = "FlappyGame" THEN CANVAS_HEIGHT ELSE GAME_CANVAS_HEIGHT) * 100

\* C18: the collision test is exclusive at every edge; for the floor, in
\* FlappyGame and in Game alike: with no pipe on screen a tick ends the game
\* exactly when the bird's bottom goes beyond the floor line, and a bird whose
\* bottom exactly reaches the line does not collide.
C18_ExclusiveEdges ==
    [][(/\ lastOp'.op = "tick"
        /\ flappy.class \in {"FlappyGame", "Game"}
        /\ flappy.obstacles = <<>>) =>
            (flappy'.isGameOver <=> NextBirdBottom(flappy) > FloorLine(flappy.class))]_vars

\* The paddle's top edge and height, and the ball's half-size, of each class
\* (legacy drawPaddle and drawBall, src/games/flappy.ts 764-778; themed
\* setupGame and checkCollisions).
BallTouchesPaddle(g) ==
    LET ball == g.balls[1]
        half == IF g.class = "legacy" THEN BALL_RADIUS ELSE THEMED_BALL_HALF
        top == IF g.class = "legacy"
               THEN BREAKOUT_CANVAS_HEIGHT - PADDLE_HEIGHT - PADDLE_Y_OFFSET
               ELSE THEMED_CANVAS_HEIGHT * 100 - THEMED_PADDLE_FROM_BOTTOM
        height == IF g.class = "legacy" THEN PADDLE_HEIGHT ELSE THEMED_PADDLE_HEIGHT
    IN  /\ ball.y + half >= top
        /\ ball.y - half <= top + height
        /\ ball.x >= g.paddleX
        /\ ball.x <= g.paddleX + g.paddleWidth

\* The exact horizontal speed a paddle of the game's class gives a ball that
\* meets it off centre by offset, as a fraction n / d: legacy deltaX * 0.15,
\* themed speed * (hitPos - 0.5) * 2.
Deflection(g, offset) ==
    IF g.class = "legacy"
    THEN [n |-> LEGACY_DEFLECTION * offset, d |-> 100]
    ELSE [n |-> 2 * g.balls[1].speed * offset, d |-> g.paddleWidth]

\* C19: whenever a frame leaves the ball touching the paddle, the ball is
\* moving up, and its horizontal speed is linear in its offset from the
\* paddle's centre: zero at the centre, leftward left of it, rightward right
\* of it.
C19_PaddleDeflection ==
    (lastOp.op = "tick" /\ breakout.balls # <<>> /\ BallTouchesPaddle(breakout)) =>
        LET ball == breakout.balls[1]
            offset == ball.x - (breakout.paddleX + breakout.paddleWidth \div 2)
            exact == Deflection(breakout, offset)
        IN  /\ ball.dy < 0
            /\ offset = 0 => ball.dx = 0
            /\ offset < 0 => ball.dx < 0
            /\ offset > 0 => ball.dx > 0
            /\ Abs(ball.dx * exact.d - exact.n) < exact.d

\* The hits the brick at b's place has left among bricks: none once it is
\* destroyed.
HitsAt(bricks, b) ==
    LET same == {c \in bricks : c.x = b.x /\ c.y = b.y}
    IN  IF same = {} THEN 0 ELSE (CHOOSE c \in same : TRUE).hits

\* The ball meets brick b in the frame from g to h: the legacy game tests the
\* ball where the frame finds it, the themed game where the frame puts it.
BallStrikes(g, h, b) ==
    IF g.class = "legacy"
    THEN LegacyBallInBrick(g.balls[1], b)
    ELSE h.balls # <<>> /\ ThemedBallInBrick(h.balls[1], b)

\* C20: a brick has at most maxHits hits left and is in play only while it
\* has one left; in every frame each brick the ball meets loses exactly one
\* hit, leaving play when none is left, and the score grows; a brick the
\* ball does not meet keeps its hits, and a brick that has left play never
\* returns.
C20_BrickHits ==
    /\ [](\A b \in Range(breakout.bricks) :
              /\ b.hits <= b.maxHits
              /\ breakout.class = "themed" => b.hits >= 1)
    /\ [][breakout'.frames = breakout.frames + 1 =>
            LET before == Range(breakout.bricks)
                after == Range(breakout'.bricks)
            IN  /\ \A b \in before :
                       b.hits > 0 =>
                           IF BallStrikes(breakout, breakout', b)
                           THEN /\ HitsAt(after, b) = b.hits - 1
                                /\ breakout'.score > breakout.score
                           ELSE HitsAt(after, b) = b.hits
                /\ \A c \in after :
                       c.hits > 0 => HitsAt(before, c) >= c.hits]_vars

\* A themed brick made with two hits has just left play on its second
\* collision, the first brick to go.
C20_Witness ==
    /\ lastOp.op = "tick"
    /\ breakout.class = "themed"
    /\ Len(breakout.bricks) = THEMED_BRICK_ROWS * THEMED_BRICK_COLS - 1
    /\ \A b \in Range(breakout.bricks) : b.maxHits = 2 /\ b.hits = 2
    /\ breakout.combo = 2

\* C21: a frame that brings a ball moving down onto the paddle turns it
\* upward in that frame and takes no life.
C21_PaddleStopsBall ==
    [][(/\ breakout'.frames = breakout.frames + 1
        /\ breakout.balls # <<>> /\ breakout'.balls # <<>>
        /\ breakout.balls[1].dy > 0
        /\ BallTouchesPaddle(breakout'))
       => (breakout'.balls[1].dy < 0 /\ breakout'.lives = breakout.lives)]_vars

\* C22: while the legacy Breakout game is over and stays over, no step moves
\* its paddle.
C22_NoInputWhenNotRunning ==
    [][(breakout.isGameOver /\ breakout'.isGameOver)
       => breakout'.paddleX = breakout.paddleX]_vars

\* C23: an update() of a Flappy game that is over changes nothing of the
\* game: bird, obstacles, score and spawn counters stay as they were.
C23_FrozenWhenOver ==
    [][(lastOp'.op = "tick" /\ flappy.isGameOver) => flappy' = flappy]_vars

\* update() has just been called on a game that was already over.
C23_Witness == lastOp.op = "tick" /\ lastOp.wasOver /\ flappy.isGameOver

\* C24: the frame drawn for an update() of a Flappy game in play shows the
\* outcome of that update: it shows the game over exactly when the update
\* has ended it.
C24_DrawAfterUpdate ==
    (lastOp.op = "tick" /\ ~lastOp.wasOver) => lastOp.drawnOver = flappy.isGameOver

\* One sequence starts the other.
IsPrefix(s, t) == Len(s) <= Len(t) /\ \A k \in DOMAIN s : s[k] = t[k]

\* C25: any two epochs begun with the same seed generate the same top-pipe
\* heights in the same order, as far as both have got.
C25_SeedDeterminesObstacles ==
    \A i, j \in DOMAIN flappy.epochs :
        flappy.epochs[i].seed = flappy.epochs[j].seed =>
            \/ IsPrefix(flappy.epochs[i].tops, flappy.epochs[j].tops)
            \/ IsPrefix(flappy.epochs[j].tops, flappy.epochs[i].tops)

\* C26: after every frame of a Breakout game that is still running with a
\* life left, a ball is in play.
C26_BallInPlay ==
    (lastOp.op = "tick" /\ breakout.running /\ breakout.lives > 0) => breakout.balls # <<>>

\* C27: a themed game never has more than one animation frame pending.
C27_OnePendingFrame == Cardinality({t \in scheduler : t.owner = "themed"}) <= 1

\* C28: the heading a tick of Snake moves by is never the opposite of the
\* heading the tick before it moved by.
C28_NoReversalBetweenTicks ==
    lastOp.op = "tick" => snake.moved # Negated(lastOp.previous)

\* A key press the listener takes: an arrow key across the current heading.
KeyAccepted(key, direction) ==
    \/ key \in {"ArrowUp", "ArrowDown"} /\ direction.y = 0
    \/ key \in {"ArrowLeft", "ArrowRight"} /\ direction.x = 0

\* C29: with invertedControls, a key press in a running themed Snake game
\* that is accepted sets the heading to the opposite of the key's direction,
\* and any other key press leaves the heading as it was.
C29_InvertedControls ==
    (lastOp.op = "key" /\ lastOp.running /\ snake.class = "themed" /\ snake.isInverted) =>
        IF KeyAccepted(lastOp.key, lastOp.before)
        THEN snake.direction = Negated(KeyDirection(lastOp.key))
        ELSE snake.direction = lastOp.before

\* C30: restart() on themed Breakout or themed Flappy leaves the game in the
\* state of a newly constructed and started game: no score, lives or combo,
\* no power-up on its way, no power-up effect or timer and no enlarged
\* paddle of the round before is left.
C30_RestartIsFresh ==
    lastOp.op = "restart" =>
        IF currentGame = "breakout" THEN breakout = ThemedBreakoutFresh
        ELSE flappy = ThemedFlappyFresh

\* C31: in themed Breakout a tick on which balls leave through the bottom
\* takes no life and keeps the game running while a ball remains; a life is
\* taken only on a tick that leaves no ball, and the game is over only with
\* no ball and no life left.
C31_BallLostAlone ==
    [][(currentGame = "breakout" /\ lastOp'.op = "lost") =>
          /\ breakout'.balls > 0 =>
                 breakout'.lives = breakout.lives /\ breakout'.gameRunning
          /\ breakout'.lives < breakout.lives => breakout'.balls = 0
          /\ ~breakout'.gameRunning => breakout'.balls = 0 /\ breakout'.lives <= 0]_vars

\* One of several balls has left and the others play on.
C31_Witness ==
    /\ currentGame = "breakout" /\ lastOp.op = "lost"
    /\ breakout.balls > 0 /\ breakout.gameRunning

\* C32: the paddle of themed Breakout lies inside the canvas in every
\* reachable state: 0 <= paddle.x and paddle.x + paddle.width <= canvas width.
C32_PaddleInsideCanvas ==
    /\ 0 <= breakout.paddleX
    /\ breakout.paddleX + breakout.paddleWidth <= THEMED_CANVAS_WIDTH * 100

\* Every brick of the layout is destroyed.
Cleared(g) == \A i \in DOMAIN g.bricks : g.bricks[i].hits = 0

\* flappy.ts lines 810-822, part_006 lines 1223-1226: the game has stopped
\* with the win message.
Won(g) ==
    /\ ~g.running
    /\ IF g.class = "legacy" THEN g.score = BRICK_ROW_COUNT * BRICK_COLUMN_COUNT
       ELSE g.bricks = <<>>

\* C33: Breakout is in the Won state exactly when the last brick has been
\* destroyed, and it has stopped with a brick remaining (GameOver) exactly
\* when the lives have reached 0.
C33_WonWhenCleared ==
    /\ Won(breakout) <=> Cleared(breakout)
    /\ (~breakout.running /\ ~Cleared(breakout)) <=> breakout.lives <= 0

\* The tick that destroyed the last brick has ended the game as won.
C33_Witness ==
    lastOp.op = "tick" /\ Won(breakout) /\ breakout.score > 0 /\ breakout.lives > 0

\* C34: the combo counter of themed Breakout is back at 0 after a tick on
\* which a ball is lost through the bottom.
C34_ComboResetOnMiss ==
    [][(breakout.class = "themed" /\ lastOp'.op = "tick"
            /\ Len(breakout'.balls) < Len(breakout.balls)) =>
          breakout'.combo = 0]_vars

\* The foods of g on cell p.
FoodsOn(g, p) == {i \in DOMAIN g.foods : g.foods[i].x = p.x /\ g.foods[i].y = p.y}

\* A tick of the themed Snake that the game survives, with the head on a
\* food cell (eats) or on a cell without food.
SurvivedTick(eats) ==
    /\ lastOp'.op = "tick" /\ snake.gameRunning /\ snake'.gameRunning
    /\ (FoodsOn(snake, snake'.snake[1]) # {}) = eats

HeadOnBody == lastOp'.op = "tick" /\ lastOp'.onBody /\ ~lastOp'.hitsWall

\* The timer is within 0..30, is 0 from the 30th tick after the last food
\* and is 0 without ghostMode.
GhostTimerBounds ==
    /\ snake.ghostModeTimer \in 0..THEMED_GHOST_FRAMES
    /\ (snake.sinceFood >= THEMED_GHOST_FRAMES) => (snake.ghostModeTimer = 0)
    /\ (~snake.hasGhostMode) => (snake.ghostModeTimer = 0)

\* What a tick does to the timer and to a head on a body cell.
GhostTimerSteps ==
    /\ (HeadOnBody /\ snake'.gameRunning) =>
          (snake.hasGhostMode /\ snake.ghostModeTimer > 0 /\ snake'.ghostModeTimer > 0)
    /\ (HeadOnBody /\ ~snake.hasGhostMode) => ~snake'.gameRunning
    /\ (lastOp'.op = "tick" /\ snake'.gameRunning /\ snake.hasGhostMode) =>
          (snake'.ghostModeTimer =
              IF lastOp'.eats THEN THEMED_GHOST_FRAMES
              ELSE IF snake.ghostModeTimer > 0 THEN snake.ghostModeTimer - 1 ELSE 0)

\* C36: in themed Snake a head moving onto a body cell is survived only
\* while the ghost timer is positive; eating sets the timer to 30 and every
\* tick takes one off, so the timer is 0 from the 30th tick after the last
\* food; without ghostMode the timer is always 0 and a head on a body cell
\* always ends the game.
C36_GhostImmunity == []GhostTimerBounds /\ [][GhostTimerSteps]_vars

\* The head has moved onto a body cell on the last immune tick after a food.
C36_Witness ==
    /\ lastOp.op = "tick" /\ lastOp.onBody /\ ~lastOp.eats
    /\ snake.gameRunning /\ snake.ghostModeTimer = 1
    /\ snake.sinceFood = THEMED_GHOST_FRAMES - 1

\* C37: every obstacle the Flappy game holds has its gap inside the canvas
\* with the minimum margin on both sides: minPipeHeight <= topPipeHeight and
\* topPipeHeight + gap <= canvasHeight - minPipeHeight.
C37_GapInsideCanvas ==
    \A i \in DOMAIN flappy.obstacles :
        LET o == flappy.obstacles[i]
        IN  /\ MIN_PIPE_HEIGHT * 100 <= o.topPipeHeight
            /\ o.topPipeHeight + o.gap * 100 <= (CANVAS_HEIGHT - MIN_PIPE_HEIGHT) * 100

\* C38: the frame drawn for the update() that ended a Flappy game (update
\* draws it on the floor, gameLoop after a pipe) shows the game-over overlay
\* with the score and not the prompt "Press Space or Click to Start".
C38_GameOverFrame ==
    (lastOp = Op("tick") /\ flappy.isGameOver) =>
        (FlappyDraw(flappy).overlay /\ FlappyDraw(flappy).text = "Game Over!")

\* The food pushed last lies on no segment and on no other food.
NewFoodFree ==
    LET n == Len(snake.foods)
    IN  /\ ~OnAny(snake.foods[n], snake.snake)
        /\ \A i \in 1..(n - 1) : snake.foods[i] # snake.foods[n]

\* C39: whenever Snake places food, at reset or after eating, the placement
\* comes to an end and the cell of the new food is held by no segment of the
\* snake and by no other food.
C39_FoodPlacement ==
    /\ [](lastOp.op = "placed" => NewFoodFree)
    /\ (snake.placing ~> ~snake.placing)

\* C40: when the import, the constructor or startGame of a launch has
\* thrown, the launcher shows the game selection again and a message that
\* names the game that failed.
C40_LaunchFailureShown ==
    lastOp.op = "failed" =>
        (/\ screenShown.gameSelection = "flex"
         /\ screenShown.text.failed = lastOp.gameId)
====
